---------------------------- MODULE Spec2Model ----------------------------
(***************************************************************************)
(* A model of the `ta` technical-analysis extension (twopirllc/ta):        *)
(* the DataFrame accessor AnalysisIndicators of ta/_extension.py and the   *)
(* module-level indicators of ta/volatility.py, ta/trend.py,               *)
(* ta/statistics.py and ta/performance.py.                                 *)
(*                                                                         *)
(* Conventions of the model                                                *)
(*  - a Series is a sequence of Bars values; a value is an exact rational  *)
(*    [n, d] (d > 0, lowest terms) or one of the three IEEE specials       *)
(*    NaN = [0,0], +inf = [1,0], -inf = [-1,0].  Floating-point rounding   *)
(*    is not modelled.                                                     *)
(*  - a Python argument value is a tagged record [t, v]: None, int v,      *)
(*    float v/1000, str v, bool v, Series v, or absent (a keyword the      *)
(*    caller did not pass).                                                *)
(*  - a raised Python exception is an outcome record with ok = FALSE and   *)
(*    the exception's class name in err.                                   *)
(***************************************************************************)
EXTENDS Integers, Sequences, FiniteSets, TLC

\* Number of bars (rows) of every table and series of the model.
Bars == 4

Idx == 1..Bars

-----------------------------------------------------------------------------
(* Exact arithmetic with IEEE-754 specials (the float64 cells of a Series) *)

Abs(x) == IF x < 0 THEN -x ELSE x

Sgn(x) == IF x < 0 THEN -1 ELSE IF x > 0 THEN 1 ELSE 0

RECURSIVE Gcd(_, _)
Gcd(a, b) == IF b = 0 THEN a ELSE Gcd(b, a % b)

\* the float n/d, d of either sign; x/0 is +-inf and 0/0 is NaN
Q(n, d) ==
    IF d = 0 THEN [n |-> Sgn(n), d |-> 0]
    ELSE LET g == Gcd(Abs(n), Abs(d))
             s == Sgn(d)
         IN  [n |-> s * (Abs(n) \div g) * Sgn(n), d |-> Abs(d) \div g]

Num(k) == [n |-> k, d |-> 1]

NaN == [n |-> 0, d |-> 0]

IsNaN(a) == a.d = 0 /\ a.n = 0

IsInf(a) == a.d = 0 /\ a.n # 0

IsFinite(a) == a.d # 0

QNeg(a) == [n |-> 0 - a.n, d |-> a.d]

QAdd(a, b) ==
    IF IsNaN(a) \/ IsNaN(b) THEN NaN
    ELSE IF a.d = 0 /\ b.d = 0 THEN (IF a.n = b.n THEN a ELSE NaN)
    ELSE IF a.d = 0 THEN a
    ELSE IF b.d = 0 THEN b
    ELSE LET g == Gcd(a.d, b.d)
         IN  Q(a.n * (b.d \div g) + b.n * (a.d \div g), (a.d \div g) * b.d)

QSub(a, b) == QAdd(a, QNeg(b))

QMul(a, b) ==
    IF IsNaN(a) \/ IsNaN(b) THEN NaN
    ELSE IF a.d = 0 \/ b.d = 0 THEN Q(a.n * b.n, 0)
    ELSE LET g == Gcd(Abs(a.n), b.d)
             h == Gcd(Abs(b.n), a.d)
         IN  Q((a.n \div g) * (b.n \div h), (a.d \div h) * (b.d \div g))

QDiv(a, b) ==
    IF IsNaN(a) \/ IsNaN(b) THEN NaN
    ELSE IF a.d = 0 /\ b.d = 0 THEN NaN
    ELSE IF a.d = 0 THEN [n |-> a.n * (IF b.n < 0 THEN -1 ELSE 1), d |-> 0]
    ELSE IF b.d = 0 THEN Num(0)
    ELSE IF b.n = 0 THEN Q(a.n, 0)
    ELSE QMul(a, Q(b.d, b.n))

QAbs(a) == [n |-> Abs(a.n), d |-> a.d]

\* a < b as floats: every comparison with NaN is false
QLt(a, b) ==
    IF IsNaN(a) \/ IsNaN(b) THEN FALSE
    ELSE IF a.d = 0 /\ b.d = 0 THEN a.n < b.n
    ELSE IF a.d = 0 THEN a.n < 0
    ELSE IF b.d = 0 THEN b.n > 0
    ELSE a.n * b.d < b.n * a.d

QGt(a, b) == QLt(b, a)

\* Python's max(a, b) / min(a, b) on two non-NaN floats
QMax(a, b) == IF QLt(a, b) THEN b ELSE a

QMin(a, b) == IF QLt(b, a) THEN b ELSE a

RECURSIVE Pow(_, _)
Pow(b, e) == IF e = 0 THEN 1 ELSE b * Pow(b, e - 1)


-----------------------------------------------------------------------------
(* pandas Series primitives, as the indicators use them                    *)

\* a series, held as the tuple of its cells
RECURSIVE Cells(_, _)
Cells(f, n) == IF n = 0 THEN <<>> ELSE Append(Cells(f, n - 1), f[n])

Series(f) == Cells(f, Bars)

SAdd(x, y) == Series([i \in Idx |-> QAdd(x[i], y[i])])

SSub(x, y) == Series([i \in Idx |-> QSub(x[i], y[i])])

SMul(x, y) == Series([i \in Idx |-> QMul(x[i], y[i])])

SDiv(x, y) == Series([i \in Idx |-> QDiv(x[i], y[i])])

\* scalar * series
SScale(c, x) == Series([i \in Idx |-> QMul(c, x[i])])

\* scalar / series
SRecip(c, x) == Series([i \in Idx |-> QDiv(c, x[i])])

\* (the sign kept: what abs() guards against)
SSigned(x) == x

SAbs(x) == Series([i \in Idx |-> QAbs(x[i])])

\* Series.shift(k): values move k positions towards the end (towards the
\* start for k < 0); the vacated positions hold NaN
Shift(x, k) == Series([i \in Idx |-> IF (i - k) \in Idx THEN x[i - k] ELSE NaN])

\* Series.diff(k)
Diff(x, k) == SSub(x, Shift(x, k))

\* Series.fillna(value)
FillNa(x, v) == Series([i \in Idx |-> IF IsNaN(x[i]) THEN v ELSE x[i]])

RECURSIVE LastValid(_, _)
LastValid(x, i) ==
    IF i < 1 THEN NaN ELSE IF ~IsNaN(x[i]) THEN x[i] ELSE LastValid(x, i - 1)

RECURSIVE NextValid(_, _)
NextValid(x, i) ==
    IF i > Bars THEN NaN ELSE IF ~IsNaN(x[i]) THEN x[i] ELSE NextValid(x, i + 1)

\* Series.fillna(method=m) for m in {'ffill', 'bfill'}
FillMethod(x, m) ==
    Series([i \in Idx |-> IF m = "ffill" THEN LastValid(x, i) ELSE NextValid(x, i)])

\* the trailing window of w positions ending at i, clipped to the series
Window(i, w) == {j \in Idx : j > i - w /\ j <= i}

\* positions of a window holding an observation (not NaN)
Obs(x, W) == {j \in W : ~IsNaN(x[j])}

RECURSIVE SumOver(_, _, _)
SumOver(x, lo, hi) ==
    IF lo > hi THEN Num(0)
    ELSE IF IsNaN(x[hi]) THEN SumOver(x, lo, hi - 1)
    ELSE QAdd(SumOver(x, lo, hi - 1), x[hi])

WinLo(i, w) == IF i - w + 1 < 1 THEN 1 ELSE i - w + 1

\* rolling(w, min_periods=mp).sum()
RollSum(x, w, mp) ==
    Series([i \in Idx |->
        IF Cardinality(Obs(x, Window(i, w))) >= mp
        THEN SumOver(x, WinLo(i, w), i) ELSE NaN])

\* rolling(w, min_periods=mp).mean()
RollMean(x, w, mp) ==
    Series([i \in Idx |->
        LET c == Cardinality(Obs(x, Window(i, w)))
        IN  IF c >= mp /\ c > 0
            THEN QDiv(SumOver(x, WinLo(i, w), i), Num(c)) ELSE NaN])

RECURSIVE MinOver(_, _, _)
MinOver(x, lo, hi) ==
    IF lo > hi THEN NaN
    ELSE LET r == MinOver(x, lo, hi - 1)
         IN  IF IsNaN(x[hi]) THEN r
             ELSE IF IsNaN(r) THEN x[hi] ELSE QMin(r, x[hi])

RECURSIVE MaxOver(_, _, _)
MaxOver(x, lo, hi) ==
    IF lo > hi THEN NaN
    ELSE LET r == MaxOver(x, lo, hi - 1)
         IN  IF IsNaN(x[hi]) THEN r
             ELSE IF IsNaN(r) THEN x[hi] ELSE QMax(r, x[hi])

\* rolling(w, min_periods=mp).min()
RollMin(x, w, mp) ==
    Series([i \in Idx |->
        IF Cardinality(Obs(x, Window(i, w))) >= mp
        THEN MinOver(x, WinLo(i, w), i) ELSE NaN])

\* rolling(w, min_periods=mp).max()
RollMax(x, w, mp) ==
    Series([i \in Idx |->
        IF Cardinality(Obs(x, Window(i, w))) >= mp
        THEN MaxOver(x, WinLo(i, w), i) ELSE NaN])

\* the sum of the p-th powers of the observations at positions lo..hi
RECURSIVE SumPow(_, _, _, _)
SumPow(x, lo, hi, p) ==
    IF lo > hi THEN Num(0)
    ELSE IF IsNaN(x[hi]) THEN SumPow(x, lo, hi - 1, p)
    ELSE QAdd(SumPow(x, lo, hi - 1, p),
              IF p = 1 THEN x[hi]
              ELSE IF p = 2 THEN QMul(x[hi], x[hi])
              ELSE IF p = 3 THEN QMul(x[hi], QMul(x[hi], x[hi]))
              ELSE QMul(QMul(x[hi], x[hi]), QMul(x[hi], x[hi])))

\* rolling(w, min_periods=mp).kurt(): the sample excess kurtosis of each
\* window from its first four moments; missing below four observations
RollKurt(x, w, mp) ==
    Series([i \in Idx |->
        LET n == Cardinality(Obs(x, Window(i, w)))
            lo == WinLo(i, w)
            A == QDiv(SumPow(x, lo, i, 1), Num(n))
            B == QSub(QDiv(SumPow(x, lo, i, 2), Num(n)), QMul(A, A))
            C == QSub(QSub(QDiv(SumPow(x, lo, i, 3), Num(n)), QMul(A, QMul(A, A))),
                      QMul(Num(3), QMul(A, B)))
            D == QSub(QSub(QSub(QDiv(SumPow(x, lo, i, 4), Num(n)),
                                QMul(QMul(A, A), QMul(A, A))),
                           QMul(Num(6), QMul(B, QMul(A, A)))),
                      QMul(Num(4), QMul(C, A)))
            K == QSub(QDiv(QMul(Num(n * n - 1), D), QMul(B, B)),
                      Num(3 * (n - 1) * (n - 1)))
        IN  IF n < mp \/ n < 4 THEN NaN
            ELSE IF ~QGt(B, Num(0)) THEN NaN
            ELSE QDiv(K, Num((n - 2) * (n - 3)))])

\* rolling(w, min_periods=mp).var(): the sample variance (ddof = 1) of
\* each window; missing below two observations
RollVar(x, w, mp) ==
    Series([i \in Idx |->
        LET n == Cardinality(Obs(x, Window(i, w)))
            lo == WinLo(i, w)
            S1 == SumPow(x, lo, i, 1)
            S2 == SumPow(x, lo, i, 2)
        IN  IF n < mp \/ n < 2 THEN NaN
            ELSE QDiv(QSub(S2, QDiv(QMul(S1, S1), Num(n))), Num(n - 1))])

\* np.sqrt of a cell, kept to two decimals: NaN for NaN and for a negative
QSqrt(a) ==
    IF IsNaN(a) \/ QLt(a, Num(0)) THEN NaN
    ELSE IF IsInf(a) THEN a
    ELSE LET n == (a.n * 10000) \div a.d
         IN  Q(CHOOSE r \in 0..n : r * r <= n /\ n < (r + 1) * (r + 1), 100)

\* Series.apply(np.sqrt)
SSqrt(x) == Series([i \in Idx |-> QSqrt(x[i])])

\* what pandas accepts as rolling(window, min_periods): an integer window
\* >= 0 and 0 <= min_periods <= window; anything else raises ValueError
RollArgsOK(w, mp) ==
    /\ w.t = "int" /\ w.v >= 0
    /\ mp.t = "int" /\ mp.v >= 0 /\ mp.v <= w.v

\* ewm(span=s): weighted sums with weight ((s-1)/(s+1))^(i-j) on x[j],
\* scaled by (s+1)^(i-j) to stay integral (adjust=True, ignore_na=False)
RECURSIVE EwmNum(_, _, _, _)
EwmNum(x, s, i, j) ==
    IF j < 1 THEN Num(0)
    ELSE LET w == Num(Pow(s - 1, i - j) * Pow(s + 1, j - 1))
             r == EwmNum(x, s, i, j - 1)
         IN  IF IsNaN(x[j]) THEN r ELSE QAdd(r, QMul(w, x[j]))

RECURSIVE EwmDen(_, _, _, _)
EwmDen(x, s, i, j) ==
    IF j < 1 THEN 0
    ELSE EwmDen(x, s, i, j - 1)
         + (IF IsNaN(x[j]) THEN 0 ELSE Pow(s - 1, i - j) * Pow(s + 1, j - 1))

\* ewm(span=s, min_periods=mp).mean()
EwmMean(x, s, mp) ==
    Series([i \in Idx |->
        LET c == Cardinality(Obs(x, 1..i))
            m == IF mp < 1 THEN 1 ELSE mp
        IN  IF c < m THEN NaN
            ELSE IF EwmDen(x, s, i, i) # 0
            THEN QDiv(EwmNum(x, s, i, i), Num(EwmDen(x, s, i, i)))
            ELSE LastValid(x, i)])

\* what pandas accepts as ewm(span, min_periods): span >= 1, else ValueError
EwmArgsOK(s, mp) == s.t = "int" /\ s.v >= 1 /\ mp.t = "int"


-----------------------------------------------------------------------------
(* Python argument values and the outcome of a call                        *)

\* a Python value: its type t and, by type, the number v (an int, or a
\* float in thousandths), the string s, the truth value b or the data d
None == [t |-> "None", v |-> 0, s |-> "", b |-> FALSE, d |-> <<>>]

\* a keyword the caller did not pass
Absent == [t |-> "absent", v |-> 0, s |-> "", b |-> FALSE, d |-> <<>>]

PyInt(k) == [None EXCEPT !.t = "int", !.v = k]

\* the float m/1000 (floats of the model have at most three decimals)
PyFloat(m) == [None EXCEPT !.t = "float", !.v = m]

PyStr(str) == [None EXCEPT !.t = "str", !.s = str]

PyBool(b) == [None EXCEPT !.t = "bool", !.b = b]

PySeries(data) == [None EXCEPT !.t = "Series", !.d = data]

\* kwargs: a function from keyword to value; kw[k] = Absent or k outside
\* DOMAIN kw means the keyword was not passed
Has(kw, k) == k \in DOMAIN kw /\ kw[k].t # "absent"

\* a named parameter whose default is None
Arg(kw, k) == IF Has(kw, k) THEN kw[k] ELSE None

\* bool(x)
Truthy(x) ==
    CASE x.t = "None" -> FALSE
      [] x.t = "int" -> x.v # 0
      [] x.t = "float" -> x.v # 0
      [] x.t = "str" -> x.s # ""
      [] x.t = "bool" -> x.b
      [] OTHER -> TRUE

IsNumber(x) == x.t \in {"int", "float"}

\* int(x) of a number: truncation towards zero
IntOf(x) ==
    IF x.t = "int" THEN x.v
    ELSE IF x.v >= 0 THEN x.v \div 1000 ELSE 0 - ((0 - x.v) \div 1000)

\* float(x) of a number
FloatOf(x) == IF x.t = "int" THEN PyFloat(1000 * x.v) ELSE x

\* the number as a float cell
QOf(x) == IF x.t = "int" THEN Num(x.v) ELSE Q(x.v, 1000)

\* the decimals of a float's repr: trailing zeros dropped, one digit kept
FmtFrac(f) ==
    IF f % 100 = 0 THEN ToString(f \div 100)
    ELSE IF f % 10 = 0
    THEN (IF f < 100 THEN "0" ELSE "") \o ToString(f \div 10)
    ELSE (IF f < 10 THEN "00" ELSE IF f < 100 THEN "0" ELSE "") \o ToString(f)

\* f"{x}" of a number
Fmt(x) ==
    IF x.t = "int" THEN ToString(x.v)
    ELSE (IF x.v < 0 THEN "-" ELSE "")
         \o ToString(Abs(x.v) \div 1000) \o "." \o FmtFrac(Abs(x.v) % 1000)

\* a value computed without raising
Val(x) == [ok |-> TRUE, err |-> "", val |-> x]

\* an exception raised while computing a value
Raise(e) == [ok |-> FALSE, err |-> e, val |-> None]


\* the first exception raised by a sequence of evaluated steps, "" if none
RECURSIVE FirstErr(_)
FirstErr(steps) ==
    IF steps = <<>> THEN ""
    ELSE IF ~Head(steps).ok THEN Head(steps).err ELSE FirstErr(Tail(steps))

\* `int(x) if x and x > 0 else D`
\* (a non-empty str makes `x > 0` raise TypeError; int() truncates)
IntIfPositive(x, D) ==
    IF ~Truthy(x) THEN Val(PyInt(D))
    ELSE IF x.t = "str" THEN Raise("TypeError")
    ELSE IF x.t = "bool" THEN Val(PyInt(1))
    ELSE IF x.v > 0 THEN Val(PyInt(IntOf(x))) ELSE Val(PyInt(D))

\* `x if x and x > 0 else D`: the same test without the int() cast
KeepIfPositive(x, D) ==
    IF ~Truthy(x) THEN Val(PyInt(D))
    ELSE IF x.t = "str" THEN Raise("TypeError")
    ELSE IF x.t = "bool" THEN Val(x)
    ELSE IF x.v > 0 THEN Val(x) ELSE Val(PyInt(D))

\* `int(kwargs['min_periods']) if 'min_periods' in kwargs and
\*  kwargs['min_periods'] is not None else D`   (D is a Python value)
MinPeriods(kw, D) ==
    IF ~Has(kw, "min_periods") \/ kw["min_periods"].t = "None" THEN Val(D)
    ELSE IF kw["min_periods"].t = "str" THEN Raise("ValueError")
    ELSE IF kw["min_periods"].t = "bool" THEN Val(PyInt(IF kw["min_periods"].b THEN 1 ELSE 0))
    ELSE Val(PyInt(IntOf(kw["min_periods"])))

\* a table: a function from column names to series
Columns(df) == DOMAIN df

\* the accessor of an empty table: __init__ returned before self._df was
\* set, and every later `df = self._df` raises AttributeError
NoTable == <<>>

\* (an assignment that leaves an existing column as it is)
SetColKeep(df, name, data) ==
    [c \in (DOMAIN df) \cup {name} |-> IF c \in DOMAIN df THEN df[c] ELSE data]

\* df[name] = data  (a new column, or an existing one overwritten)
SetCol(df, name, data) ==
    [c \in (DOMAIN df) \cup {name} |-> IF c = name THEN data ELSE df[c]]

\* a lookup that forgets the names: a series, else the default column
ResolveDefaultOnly(df, ref, default) ==
    IF ref.t = "Series" THEN Val(PySeries(ref.d))
    ELSE IF default \in Columns(df) THEN Val(PySeries(df[default]))
    ELSE Raise("AttributeError")

\* a lookup that answers a missing default column with an empty series
ResolveOrMissing(df, ref, default) ==
    IF ref.t = "Series" THEN Val(PySeries(ref.d))
    ELSE IF ref.t = "str" /\ ref.s \in Columns(df) THEN Val(PySeries(df[ref.s]))
    ELSE IF default \in Columns(df) THEN Val(PySeries(df[default]))
    ELSE Val(PySeries(Series([i \in Idx |-> NaN])))

\* the column lookup every facade method repeats per column argument:
\*   if isinstance(x, pd.Series): x = x
\*   else: x = df[x] if x in df.columns else df.<default>
\* df.<default> raises AttributeError when the table has no such column
Resolve(df, ref, default) ==
    IF df = NoTable THEN Raise("AttributeError")
    ELSE IF ref.t = "Series" THEN Val(PySeries(ref.d))
    ELSE IF ref.t = "str" /\ ref.s \in Columns(df) THEN Val(PySeries(df[ref.s]))
    ELSE IF default \in Columns(df) THEN Val(PySeries(df[default]))
    ELSE Raise("AttributeError")

\* a result Series with its .name and .category
Ser(name, category, data) == [name |-> name, category |-> category, data |-> data]

NoEff == [k \in {} |-> None]

\* the outcome of a call that raised: nothing is returned
RetErr(e) ==
    [ok |-> FALSE, err |-> e, shape |-> "None", name |-> "", category |-> "",
     members |-> <<>>, eff |-> NoEff, inputs |-> NoEff, msg |-> "",
     alias |-> "", timed |-> FALSE]

\* a call that returned None
RetNone ==
    [ok |-> TRUE, err |-> "", shape |-> "None", name |-> "", category |-> "",
     members |-> <<>>, eff |-> NoEff, inputs |-> NoEff, msg |-> "",
     alias |-> "", timed |-> FALSE]

\* a returned Series; eff are the effective (validated) parameters and
\* inputs the series the column arguments resolved to
RetSeries(s, eff, inputs) ==
    [ok |-> TRUE, err |-> "", shape |-> "Series", name |-> s.name,
     category |-> s.category, members |-> <<s>>, eff |-> eff, inputs |-> inputs,
     msg |-> "", alias |-> "", timed |-> FALSE]

\* a returned DataFrame built from the member series
RetFrame(name, category, members, eff, inputs) ==
    [ok |-> TRUE, err |-> "", shape |-> "DataFrame", name |-> name,
     category |-> category, members |-> members, eff |-> eff, inputs |-> inputs,
     msg |-> "", alias |-> "", timed |-> FALSE]

\* the result of one call: what is returned (or raised) and the table after it
Out(ret, df) == [ret |-> ret, df |-> df]

Fail(df, e) == Out(RetErr(e), df)

\* len(df.index): the rows of a table, 0 for one without columns
Rows(t) == IF Columns(t) = {} THEN 0 ELSE Len(t[CHOOSE c \in Columns(t) : TRUE])

\* df.empty: one of the two axes has length 0
Empty(t) == Rows(t) = 0 \/ Columns(t) = {}

\* BasePandasObject.__init__(self, df, **kwargs), which AnalysisIndicators
\* inherits: the table the accessor holds afterwards, NoTable for none
\*   if df.empty: return None
\*   if len(df.columns) > 0: self._df = df
\*   else: raise AttributeError(f"[X] No columns!")
init(t) ==
    IF Empty(t) THEN Out(RetNone, NoTable)
    ELSE IF Cardinality(Columns(t)) > 0 THEN Out(RetNone, t)
    ELSE Out([RetErr("AttributeError") EXCEPT !.msg = "[X] No columns!"], NoTable)

\* (the fills taken in the other order, directional fill first)
FillsMethodFirst(x, kw) ==
    LET a == IF Has(kw, "fill_method") THEN FillMethod(x, kw["fill_method"].s) ELSE x
    IN  IF Has(kw, "fillna") THEN FillNa(a, QOf(kw["fillna"])) ELSE a

\* Handle fills:
\*   if 'fillna' in kwargs: x.fillna(kwargs['fillna'], inplace=True)
\*   if 'fill_method' in kwargs: x.fillna(method=kwargs['fill_method'], inplace=True)
Fills(x, kw) ==
    LET a == IF Has(kw, "fillna") THEN FillNa(x, QOf(kw["fillna"])) ELSE x
    IN  IF Has(kw, "fill_method") THEN FillMethod(a, kw["fill_method"].s) ELSE a

\* `'append' in kwargs and kwargs['append']`
Appending(kw) == Has(kw, "append") /\ Truthy(kw["append"])

RECURSIVE AppendAll(_, _)
AppendAll(df, members) ==
    IF members = <<>> THEN df
    ELSE AppendAll(SetCol(df, Head(members).name, Head(members).data), Tail(members))

\* (an append that writes the first member only)
AppendFirstOnly(df, kw, members) ==
    IF Appending(kw) /\ members # <<>>
    THEN SetCol(df, Head(members).name, Head(members).data) ELSE df

\* (an append that is made whether asked for or not)
AppendAlways(df, kw, members) == AppendAll(df, members)

\* If append, then add it to the df:  df[x.name] = x  for each member
MaybeAppend(df, kw, members) ==
    IF Appending(kw) THEN AppendAll(df, members) ELSE df

\* "If append, then add it to the df" and "return": the series is appended
\* when asked for, and returned
Return(df, kw, r, eff, inputs) ==
    Out(RetSeries(r, eff, inputs), MaybeAppend(df, kw, <<r>>))

\* the same for the members of a frame
ReturnFrame(df, kw, name, category, members, eff, inputs) ==
    Out(RetFrame(name, category, members, eff, inputs), MaybeAppend(df, kw, members))


-----------------------------------------------------------------------------
(* AnalysisIndicators: the momentum indicators written inline              *)

DefaultApoFast == 12

DefaultApoSlow == 26

\* fast, slow = slow, fast  when slow < fast
SwapFast(fast, slow) == IF slow.v < fast.v THEN slow ELSE fast

SwapSlow(fast, slow) == IF slow.v < fast.v THEN fast ELSE slow

\* AnalysisIndicators.apo(close=None, fast=None, slow=None, **kwargs)
apo(df, kw) ==
    LET close == Resolve(df, Arg(kw, "close"), "close")
        f0 == IntIfPositive(Arg(kw, "fast"), DefaultApoFast)
        s0 == IntIfPositive(Arg(kw, "slow"), DefaultApoSlow)
        fast == SwapFast(f0.val, s0.val)
        slow == SwapSlow(f0.val, s0.val)
        mp == MinPeriods(kw, fast)
        e == FirstErr(<<close, f0, s0, mp>>)
    IN  IF e # "" THEN Fail(df, e)
        ELSE IF ~RollArgsOK(fast, mp.val) \/ ~RollArgsOK(slow, mp.val)
        THEN Fail(df, "ValueError")
        ELSE LET fastma == RollMean(close.val.d, fast.v, mp.val.v)
                 slowma == RollMean(close.val.d, slow.v, mp.val.v)
                 r == Ser("APO_" \o Fmt(fast) \o "_" \o Fmt(slow), "momentum",
                          Fills(SSub(fastma, slowma), kw))
             IN  Return(df, kw, r, [fast |-> fast, slow |-> slow, min_periods |-> mp.val],
                               [close |-> close.val.d])

\* AnalysisIndicators.ppo(close=None, fast=None, slow=None, **kwargs)
ppo(df, kw) ==
    LET close == Resolve(df, Arg(kw, "close"), "close")
        f0 == IntIfPositive(Arg(kw, "fast"), DefaultApoFast)
        s0 == IntIfPositive(Arg(kw, "slow"), DefaultApoSlow)
        fast == SwapFast(f0.val, s0.val)
        slow == SwapSlow(f0.val, s0.val)
        mp == MinPeriods(kw, fast)
        e == FirstErr(<<close, f0, s0, mp>>)
    IN  IF e # "" THEN Fail(df, e)
        ELSE IF ~RollArgsOK(fast, mp.val) \/ ~RollArgsOK(slow, mp.val)
        THEN Fail(df, "ValueError")
        ELSE LET fastma == RollMean(close.val.d, fast.v, mp.val.v)
                 slowma == RollMean(close.val.d, slow.v, mp.val.v)
                 r == Ser("PPO_" \o Fmt(fast) \o "_" \o Fmt(slow), "momentum",
                          Fills(SDiv(SScale(Num(100), SSub(fastma, slowma)), slowma), kw))
             IN  Return(df, kw, r, [fast |-> fast, slow |-> slow, min_periods |-> mp.val],
                               [close |-> close.val.d])


DefaultAoFast == 5

DefaultAoSlow == 34

\* _ao(df, high, low, fast=None, slow=None, **kwargs), behind
\* AnalysisIndicators.ao: the pair is validated but neither cast nor swapped
ao(df, kw) ==
    LET high == Resolve(df, Arg(kw, "high"), "high")
        low == Resolve(df, Arg(kw, "low"), "low")
        f0 == KeepIfPositive(Arg(kw, "fast"), DefaultAoFast)
        s0 == KeepIfPositive(Arg(kw, "slow"), DefaultAoSlow)
        fast == f0.val
        slow == s0.val
        e == FirstErr(<<high, low, f0, s0>>)
    IN  IF e # "" THEN Fail(df, e)
        ELSE IF ~RollArgsOK(fast, fast) \/ ~RollArgsOK(slow, slow)
        THEN Fail(df, "ValueError")
        ELSE LET median_price == SScale(Q(1, 2), SAdd(high.val.d, low.val.d))
                 r == Ser("AO_" \o Fmt(fast) \o "_" \o Fmt(slow), "momentum",
                          Fills(SSub(RollMean(median_price, fast.v, fast.v),
                                     RollMean(median_price, slow.v, slow.v)), kw))
             IN  Return(df, kw, r, [fast |-> fast, slow |-> slow],
                               [high |-> high.val.d, low |-> low.val.d])

\* np.argmax of the raw window x[lo..hi], as a position of the series:
\* the first NaN if there is one, else the first largest value
ArgMaxPos(x, lo, hi) ==
    LET W == lo..hi
        hit(j) == IF \E k \in W : IsNaN(x[k]) THEN IsNaN(x[j])
                  ELSE \A k \in W : ~QLt(x[j], x[k])
    IN  CHOOSE j \in W : hit(j) /\ \A k \in W : (k < j => ~hit(k))

\* np.argmin of the raw window
ArgMinPos(x, lo, hi) ==
    LET W == lo..hi
        hit(j) == IF \E k \in W : IsNaN(x[k]) THEN IsNaN(x[j])
                  ELSE \A k \in W : ~QLt(x[k], x[j])
    IN  CHOOSE j \in W : hit(j) /\ \A k \in W : (k < j => ~hit(k))

\* rolling(length, min_periods=mp).apply(maxidx, raw=True) with
\* maxidx(x) = 100 * (int(np.argmax(x)) + 1) / length
RollMaxIdx(x, length, mp) ==
    Series([i \in Idx |->
        IF Cardinality(Obs(x, Window(i, length))) >= mp
        THEN Q(100 * (ArgMaxPos(x, WinLo(i, length), i) - WinLo(i, length) + 1), length)
        ELSE NaN])

\* ... and minidx(x) = 100 * (int(np.argmin(x)) + 1) / length
RollMinIdx(x, length, mp) ==
    Series([i \in Idx |->
        IF Cardinality(Obs(x, Window(i, length))) >= mp
        THEN Q(100 * (ArgMinPos(x, WinLo(i, length), i) - WinLo(i, length) + 1), length)
        ELSE NaN])

\* rolling(length).apply(f) needs a window of at least one position
ApplyArgsOK(w, mp) == RollArgsOK(w, mp) /\ w.v >= 1

DefaultAroonLength == 14

\* _aroon(df, close, length=None, offset=None, **kwargs), behind
\* AnalysisIndicators.aroon: offset is accepted and never read
aroon(df, kw) ==
    LET close == Resolve(df, Arg(kw, "close"), "close")
        l0 == KeepIfPositive(Arg(kw, "length"), DefaultAroonLength)
        length == l0.val
        e == FirstErr(<<close, l0>>)
    IN  IF e # "" THEN Fail(df, e)
        ELSE IF ~ApplyArgsOK(length, length) THEN Fail(df, "ValueError")
        ELSE LET up == Ser("AROONU_" \o Fmt(length), "",
                           Fills(RollMaxIdx(close.val.d, length.v, length.v), kw))
                 down == Ser("AROOND_" \o Fmt(length), "",
                             Fills(RollMinIdx(close.val.d, length.v, length.v), kw))
             IN  ReturnFrame(df, kw, "ARRON_" \o Fmt(length), "", <<up, down>>,
                              [length |-> length], [close |-> close.val.d])

DefaultMacdFast == 12

DefaultMacdSlow == 26

DefaultMacdSignal == 9

\* AnalysisIndicators.macd(close=None, fast=None, slow=None, signal=None, **kwargs)
macd(df, kw) ==
    LET close == Resolve(df, Arg(kw, "close"), "close")
        f0 == IntIfPositive(Arg(kw, "fast"), DefaultMacdFast)
        s0 == IntIfPositive(Arg(kw, "slow"), DefaultMacdSlow)
        g0 == IntIfPositive(Arg(kw, "signal"), DefaultMacdSignal)
        fast == SwapFast(f0.val, s0.val)
        slow == SwapSlow(f0.val, s0.val)
        signal == g0.val
        mp == MinPeriods(kw, fast)
        e == FirstErr(<<close, f0, s0, g0, mp>>)
    IN  IF e # "" THEN Fail(df, e)
        ELSE IF ~EwmArgsOK(fast, mp.val) \/ ~EwmArgsOK(slow, mp.val)
                \/ ~EwmArgsOK(signal, mp.val)
        THEN Fail(df, "ValueError")
        ELSE LET fastma == EwmMean(close.val.d, fast.v, mp.val.v)
                 slowma == EwmMean(close.val.d, slow.v, mp.val.v)
                 line == SSub(fastma, slowma)
                 signalma == EwmMean(line, signal.v, mp.val.v)
                 sfx == Fmt(fast) \o "_" \o Fmt(slow) \o "_" \o Fmt(signal)
                 m == Ser("MACD_" \o sfx, "momentum", Fills(line, kw))
                 h == Ser("MACDH_" \o sfx, "momentum", Fills(SSub(line, signalma), kw))
                 g == Ser("MACDS_" \o sfx, "momentum", Fills(signalma, kw))
             IN  ReturnFrame(df, kw, "MACD_" \o sfx, "momentum", <<m, h, g>>,
                              [fast |-> fast, slow |-> slow, signal |-> signal,
                               min_periods |-> mp.val],
                              [close |-> close.val.d])

DefaultMassiFast == 9

DefaultMassiSlow == 25

\* AnalysisIndicators.massi(high=None, low=None, fast=None, slow=None, **kwargs)
massi(df, kw) ==
    LET high == Resolve(df, Arg(kw, "high"), "high")
        low == Resolve(df, Arg(kw, "low"), "low")
        f0 == IntIfPositive(Arg(kw, "fast"), DefaultMassiFast)
        s0 == IntIfPositive(Arg(kw, "slow"), DefaultMassiSlow)
        fast == SwapFast(f0.val, s0.val)
        slow == SwapSlow(f0.val, s0.val)
        mp == MinPeriods(kw, fast)
        e == FirstErr(<<high, low, f0, s0, mp>>)
    IN  IF e # "" THEN Fail(df, e)
        ELSE IF ~EwmArgsOK(fast, mp.val) \/ ~RollArgsOK(slow, slow)
        THEN Fail(df, "ValueError")
        ELSE LET hl_range == SSub(high.val.d, low.val.d)
                 hl_ema1 == EwmMean(hl_range, fast.v, mp.val.v)
                 hl_ema2 == EwmMean(hl_ema1, fast.v, mp.val.v)
                 mass == SDiv(hl_ema1, hl_ema2)
                 r == Ser("MASSI_" \o Fmt(fast) \o "_" \o Fmt(slow), "momentum",
                          Fills(RollSum(mass, slow.v, slow.v), kw))
             IN  Return(df, kw, r, [fast |-> fast, slow |-> slow, min_periods |-> mp.val],
                               [high |-> high.val.d, low |-> low.val.d])

DefaultTsiFast == 13

DefaultTsiSlow == 25

DefaultDrift == 1

\* _tsi(df, close=None, fast=None, slow=None, drift=None, **kwargs), behind
\* AnalysisIndicators.tsi
tsi(df, kw) ==
    LET close == Resolve(df, Arg(kw, "close"), "close")
        f0 == IntIfPositive(Arg(kw, "fast"), DefaultTsiFast)
        s0 == IntIfPositive(Arg(kw, "slow"), DefaultTsiSlow)
        fast == SwapFast(f0.val, s0.val)
        slow == SwapSlow(f0.val, s0.val)
        mp == MinPeriods(kw, fast)
        d0 == IntIfPositive(Arg(kw, "drift"), DefaultDrift)
        e == FirstErr(<<close, f0, s0, mp, d0>>)
    IN  IF e # "" THEN Fail(df, e)
        ELSE IF ~EwmArgsOK(fast, PyInt(0)) \/ ~EwmArgsOK(slow, PyInt(0))
        THEN Fail(df, "ValueError")
        ELSE LET diff == Diff(close.val.d, d0.val.v)
                 m == EwmMean(EwmMean(diff, slow.v, 0), fast.v, 0)
                 ma == EwmMean(EwmMean(SAbs(diff), slow.v, 0), fast.v, 0)
                 r == Ser("TSI_" \o Fmt(fast) \o "_" \o Fmt(slow), "momentum",
                          Fills(SDiv(SScale(Num(100), m), ma), kw))
             IN  Return(df, kw, r, [fast |-> fast, slow |-> slow, min_periods |-> mp.val,
                                   drift |-> d0.val],
                               [close |-> close.val.d])

\* ewm(com=c, adjust=False).mean(): y = x at the first observation, then
\* y[i] = (c * y[i-1] + x[i]) / (c + 1); a missing x[i] carries y[i-1]
RECURSIVE EwmCom(_, _, _)
EwmCom(x, c, i) ==
    IF i < 1 THEN NaN
    ELSE LET prev == EwmCom(x, c, i - 1)
         IN  IF IsNaN(x[i]) THEN prev
             ELSE IF IsNaN(prev) THEN x[i]
             ELSE QDiv(QAdd(QMul(Num(c), prev), x[i]), Num(c + 1))

DefaultRsiLength == 14

\* AnalysisIndicators.rsi(close=None, length=None, drift=None, **kwargs)
rsi(df, kw) ==
    LET close == Resolve(df, Arg(kw, "close"), "close")
        l0 == IntIfPositive(Arg(kw, "length"), DefaultRsiLength)
        d0 == IntIfPositive(Arg(kw, "drift"), DefaultDrift)
        e == FirstErr(<<close, l0, d0>>)
    IN  IF e # "" THEN Fail(df, e)
        ELSE LET diff == Diff(close.val.d, d0.val.v)
                 positive == Series([i \in Idx |-> IF QLt(diff[i], Num(0)) THEN Num(0) ELSE diff[i]])
                 negative == Series([i \in Idx |-> IF QGt(diff[i], Num(0)) THEN Num(0) ELSE diff[i]])
                 pavg == Series([i \in Idx |-> EwmCom(positive, l0.val.v, i)])
                 navg == SAbs(Series([i \in Idx |-> EwmCom(negative, l0.val.v, i)]))
                 r == Ser("RSI_" \o Fmt(l0.val), "momentum",
                          Fills(SDiv(SScale(Num(100), pavg), SAdd(pavg, navg)), kw))
             IN  Return(df, kw, r, [length |-> l0.val, drift |-> d0.val],
                               [close |-> close.val.d])


-----------------------------------------------------------------------------
(* AnalysisIndicators: volatility and volume indicators                    *)

\* str.lower() on the mixed-case strings the model passes; every other
\* string of the model is lower-case already
Lower(str) ==
    CASE str = "RelativeStrengthIndex" -> "relativestrengthindex"
      [] str = "MACD" -> "macd"
      [] str = "TrueRange" -> "truerange"
      [] str = "AbsolutePriceOscillator" -> "absolutepriceoscillator"
      [] str = "KeltnerChannels" -> "keltnerchannels"
      [] str = "RSI" -> "rsi"
      [] str = "Apo" -> "apo"
      [] str = "True_Range" -> "true_range"
      [] str = "KC" -> "kc"
      [] str = "EMA" -> "ema"
      [] str = "SMA" -> "sma"
      [] OTHER -> str

\* `int(drift) if drift and drift != 0 else 1`  (true_range)
IntIfNonZero(x, D) ==
    IF ~Truthy(x) THEN Val(PyInt(D))
    ELSE IF x.t = "str" THEN Raise("ValueError")
    ELSE IF x.t = "bool" THEN Val(PyInt(1))
    ELSE Val(PyInt(IntOf(x)))

\* `float(x) if x and x >= 0 else D`  (kc's scalar)
FloatIfNotNegative(x, D) ==
    IF ~Truthy(x) THEN Val(PyInt(D))
    ELSE IF x.t = "str" THEN Raise("TypeError")
    ELSE IF x.t = "bool" THEN Val(PyFloat(1000))
    ELSE IF x.v >= 0 THEN Val(FloatOf(x)) ELSE Val(PyInt(D))

\* `mamode.lower() if mamode else D`  (a truthy non-str has no .lower)
MaMode(x, D) ==
    IF ~Truthy(x) THEN Val(PyStr(D))
    ELSE IF x.t = "str" THEN Val(PyStr(Lower(x.s)))
    ELSE Raise("AttributeError")

\* DataFrame([a, b, c]).T.abs().max(axis=1): the row maximum, NaN skipped
RowAbsMax(a, b, c) ==
    Series([i \in Idx |->
        LET row == [j \in Idx |-> IF j = 1 THEN QAbs(a[i])
                                  ELSE IF j = 2 THEN QAbs(b[i])
                                  ELSE IF j = 3 THEN QAbs(c[i]) ELSE NaN]
        IN  MaxOver(row, 1, 3)])

DefaultTrueRangeLength == 1

\* AnalysisIndicators.true_range(high=None, low=None, close=None,
\*                               length=None, drift=None, **kwargs)
true_range(df, kw) ==
    LET high == Resolve(df, Arg(kw, "high"), "high")
        low == Resolve(df, Arg(kw, "low"), "low")
        close == Resolve(df, Arg(kw, "close"), "close")
        l0 == IntIfPositive(Arg(kw, "length"), DefaultTrueRangeLength)
        d0 == IntIfNonZero(Arg(kw, "drift"), DefaultDrift)
        mp == MinPeriods(kw, l0.val)
        e == FirstErr(<<high, low, close, l0, d0, mp>>)
    IN  IF e # "" THEN Fail(df, e)
        ELSE LET prev_close == Shift(close.val.d, d0.val.v)
                 r == Ser("TRUERANGE_" \o Fmt(l0.val), "volatility",
                          Fills(RowAbsMax(SSub(high.val.d, low.val.d),
                                          SSub(high.val.d, prev_close),
                                          SSub(low.val.d, prev_close)), kw))
             IN  Return(df, kw, r, [length |-> l0.val, drift |-> d0.val,
                                   min_periods |-> mp.val],
                               [high |-> high.val.d, low |-> low.val.d,
                                close |-> close.val.d])

DefaultAtrLength == 14

\* AnalysisIndicators.atr(high=None, low=None, close=None, length=None,
\*                        mamode=None, **kwargs)
\* the lines after  true_range = self.true_range(...):  tr is its outcome
atr_of(df, kw, high, low, close, length, mp, mamode, tr) ==
    IF ~tr.ret.ok THEN Fail(df, tr.ret.err)
    ELSE IF (mamode.s = "ema" /\ ~EwmArgsOK(length, mp))
            \/ (mamode.s # "ema" /\ ~RollArgsOK(length, mp))
    THEN Fail(df, "ValueError")
    ELSE Return(df, kw,
                Ser("ATR_" \o Fmt(length), "volatility",
                    Fills(IF mamode.s = "ema"
                          THEN EwmMean(tr.ret.members[1].data, length.v, mp.v)
                          ELSE RollMean(tr.ret.members[1].data, length.v, mp.v), kw)),
                [length |-> length, min_periods |-> mp, mamode |-> mamode],
                [high |-> high.d, low |-> low.d, close |-> close.d])

atr(df, kw) ==
    LET high == Resolve(df, Arg(kw, "high"), "high")
        low == Resolve(df, Arg(kw, "low"), "low")
        close == Resolve(df, Arg(kw, "close"), "close")
        l0 == IntIfPositive(Arg(kw, "length"), DefaultAtrLength)
        mp == MinPeriods(kw, l0.val)
        mamode == MaMode(Arg(kw, "mamode"), "ema")
        e == FirstErr(<<high, low, close, l0, mp, mamode>>)
    IN  IF e # "" THEN Fail(df, e)
        ELSE atr_of(df, kw, high.val, low.val, close.val, l0.val, mp.val, mamode.val,
                    true_range(df, [high |-> high.val, low |-> low.val,
                                    close |-> close.val, length |-> l0.val]))

\* overlap.hlc3: the typical price (high + low + close) / 3
hlc3(high, low, close) == SScale(Q(1, 3), SAdd(SAdd(high, low), close))

DefaultKcLength == 9999

DefaultKcScalar == 2

\* AnalysisIndicators.kc(high=None, low=None, close=None, length=None,
\*                       scalar=None, mamode=None, **kwargs)
\* (std = self.variance(...).apply(np.sqrt) is computed and never used)
\* lower = basis - scalar * band;  upper = basis + scalar * band
kc_bands(df, kw, high, low, close, length, mp, scalar, mamode, basis, band) ==
    ReturnFrame(df, kw, "KC" \o Fmt(length), "volatility",
                << Ser("KCL_" \o Fmt(length), "volatility",
                       Fills(SSub(basis, SScale(QOf(scalar), band)), kw)),
                   Ser("KCB_" \o Fmt(length), "volatility", Fills(basis, kw)),
                   Ser("KCU_" \o Fmt(length), "volatility",
                       Fills(SAdd(basis, SScale(QOf(scalar), band)), kw)) >>,
                [length |-> length, min_periods |-> mp, scalar |-> scalar,
                 mamode |-> mamode],
                [high |-> high.d, low |-> low.d, close |-> close.d])

\* the 'ema' branch: rolling means of the typical price and of high - low
kc_ema(df, kw, high, low, close, length, mp, scalar, mamode) ==
    IF ~RollArgsOK(length, mp) THEN Fail(df, "ValueError")
    ELSE kc_bands(df, kw, high, low, close, length, mp, scalar, mamode,
                  RollMean(hlc3(high.d, low.d, close.d), length.v, mp.v),
                  RollMean(SSub(high.d, low.d), length.v, mp.v))

\* the other branch: an ewm of close, and band = self.atr(...), band_atr
\* its outcome
kc_classic(df, kw, high, low, close, length, mp, scalar, mamode, band_atr) ==
    IF ~EwmArgsOK(length, mp) THEN Fail(df, "ValueError")
    ELSE IF ~band_atr.ret.ok THEN Fail(df, band_atr.ret.err)
    ELSE kc_bands(df, kw, high, low, close, length, mp, scalar, mamode,
                  EwmMean(close.d, length.v, mp.v),
                  band_atr.ret.members[1].data)

kc(df, kw) ==
    LET high == Resolve(df, Arg(kw, "high"), "high")
        low == Resolve(df, Arg(kw, "low"), "low")
        close == Resolve(df, Arg(kw, "close"), "close")
        l0 == IntIfPositive(Arg(kw, "length"), DefaultKcLength)
        mp == MinPeriods(kw, l0.val)
        sc == FloatIfNotNegative(Arg(kw, "scalar"), DefaultKcScalar)
        mamode == MaMode(Arg(kw, "mamode"), "classic")
        e == FirstErr(<<high, low, close, l0, mp, sc, mamode>>)
    IN  IF e # "" THEN Fail(df, e)
        ELSE IF mamode.val.s = "ema"
        THEN kc_ema(df, kw, high.val, low.val, close.val, l0.val, mp.val, sc.val,
                    mamode.val)
        ELSE kc_classic(df, kw, high.val, low.val, close.val, l0.val, mp.val, sc.val,
                        mamode.val,
                        atr(df, [high |-> high.val, low |-> low.val,
                                 close |-> close.val]))

\* Series.cumsum(): a running sum that skips NaN and leaves it in place
CumSum(x) == Series([i \in Idx |-> IF IsNaN(x[i]) THEN NaN ELSE SumOver(x, 1, i)])

\* utils.get_offset: the offset as an integer, 0 when absent
get_offset(x) == IF Truthy(x) /\ IsNumber(x) THEN IntOf(x) ELSE 0

\* volume.ad(high, low, close, volume, open_=None, signed=True, offset=None):
\* Accumulation/Distribution; open_ = <<>> stands for None
volume_ad(high, low, close, volume, open_, kw) ==
    LET offset == get_offset(Arg(kw, "offset"))
        move == IF open_ = <<>>
                THEN SSub(SSub(SScale(Num(2), close), high), low)
                ELSE SSub(close, open_)
        acc == CumSum(SMul(move, SDiv(volume, SSub(high, low))))
    IN  Ser(IF open_ = <<>> THEN "AD" ELSE "ADo", "volume",
            Fills(IF offset # 0 THEN Shift(acc, offset) ELSE acc, kw))

\* AnalysisIndicators.ad(high=None, low=None, close=None, volume=None,
\*                       open_=None, signed=True, offset=None, **kwargs):
\* open_ is looked up only when it is not None
ad(df, kw) ==
    LET high == Resolve(df, Arg(kw, "high"), "high")
        low == Resolve(df, Arg(kw, "low"), "low")
        close == Resolve(df, Arg(kw, "close"), "close")
        volume == Resolve(df, Arg(kw, "volume"), "volume")
        open_ == IF Arg(kw, "open_").t = "None" THEN Val(PySeries(<<>>))
                 ELSE Resolve(df, Arg(kw, "open_"), "open")
        e == FirstErr(<<high, low, close, volume, open_>>)
    IN  IF e # "" THEN Fail(df, e)
        ELSE LET r == volume_ad(high.val.d, low.val.d, close.val.d, volume.val.d,
                                open_.val.d, kw)
             IN  Return(df, kw, r, NoEff,
                               [high |-> high.val.d, low |-> low.val.d,
                                close |-> close.val.d, volume |-> volume.val.d,
                                open_ |-> open_.val.d])


-----------------------------------------------------------------------------
(* AnalysisIndicators.__call__ and the accessor's attributes               *)

DefaultMinRange == -100

DefaultMaxRange == 100

DefaultEvery == 10

\* [x for x in range(min_range, max_range + 1) if x % every == 0]
Levels(lo, hi, every) == {x \in lo..hi : x % every = 0}

\* for x in _levels: self._df[f'{x}'] = x
SetLevels(df, lo, hi, every) ==
    LET names == {ToString(x) : x \in Levels(lo, hi, every)}
    IN  [c \in Columns(df) \cup names |->
            IF c \in names
            THEN Series([i \in Idx |-> Num(CHOOSE x \in Levels(lo, hi, every) : ToString(x) = c)])
            ELSE df[c]]

\* AnalysisIndicators.defaults(value, min_range=-100, max_range=100, every=10):
\* adds (value true) or deletes (value false) one constant column per level;
\* it is no indicator and returns None
defaults(df, kw) ==
    LET lo == IF Has(kw, "min_range") THEN kw["min_range"].v ELSE DefaultMinRange
        hi == IF Has(kw, "max_range") THEN kw["max_range"].v ELSE DefaultMaxRange
        every == IF Has(kw, "every") THEN kw["every"].v ELSE DefaultEvery
        passed == {k \in DOMAIN kw : Has(kw, k)}
    IN  IF ~Has(kw, "value") \/ ~(passed \subseteq {"value", "min_range", "max_range", "every"})
        THEN Fail(df, "TypeError")
        ELSE IF every = 0 /\ lo <= hi THEN Fail(df, "ZeroDivisionError")
        ELSE IF df = NoTable /\ Levels(lo, hi, every) # {} THEN Fail(df, "AttributeError")
        ELSE IF Truthy(kw["value"]) THEN Out(RetNone, SetLevels(df, lo, hi, every))
        ELSE IF \E x \in Levels(lo, hi, every) : ToString(x) \notin Columns(df)
        THEN Out(RetErr("KeyError"),
                 LET first == CHOOSE x \in Levels(lo, hi, every) :
                                 /\ ToString(x) \notin Columns(df)
                                 /\ \A y \in Levels(lo, hi, every) :
                                       ToString(y) \notin Columns(df) => x <= y
                 IN  [c \in Columns(df) \ {ToString(y) : y \in {z \in Levels(lo, hi, every) : z < first}}
                        |-> df[c]])
        ELSE Out(RetNone,
                 [c \in Columns(df) \ {ToString(y) : y \in Levels(lo, hi, every)} |-> df[c]])

\* x - 1 of a number
MinusOne(x) == IF x.t = "float" THEN PyFloat(x.v - 1000) ELSE PyInt(x.v - 1)

\* a dict display {a.name: a, b.name: b, ...}: an entry under a name already
\* present replaces the value and keeps the place of the first
RECURSIVE Put(_, _)
Put(d, m) ==
    IF d = <<>> THEN <<m>>
    ELSE IF Head(d).name = m.name THEN <<m>> \o Tail(d)
    ELSE <<Head(d)>> \o Put(Tail(d), m)

RECURSIVE Dict(_)
Dict(members) ==
    IF members = <<>> THEN <<>>
    ELSE Put(Dict(SubSeq(members, 1, Len(members) - 1)), members[Len(members)])

DefaultStochFastK == 14

DefaultStochSlowK == 5

DefaultStochSlowD == 3

\* _stoch, "Name and Categorize it" to the return: fastd is named after
\* slow_d under the prefix of fastk, slowd after slow_d under the prefix of
\* slowk; the four series are appended one by one, and the frame is built
\* from a dict keyed by the names
stoch_frame(df, kw, fastk, fastd, slowk, slowd, fast_k, slow_k, slow_d, inputs) ==
    LET fk == Ser("STOCHF_" \o Fmt(fast_k), "momentum", Fills(fastk, kw))
        fd == Ser("STOCHF_" \o Fmt(slow_d), "momentum", Fills(fastd, kw))
        sk == Ser("STOCH_" \o Fmt(slow_k), "momentum", Fills(slowk, kw))
        sd == Ser("STOCH_" \o Fmt(slow_d), "momentum", Fills(slowd, kw))
    IN  Out(RetFrame("STOCH_" \o Fmt(fast_k) \o "_" \o Fmt(slow_k) \o "_" \o Fmt(slow_d),
                     "volatility", Dict(<<fk, fd, sk, sd>>),
                     [fast_k |-> fast_k, slow_k |-> slow_k, slow_d |-> slow_d], inputs),
            MaybeAppend(df, kw, <<fk, fd, sk, sd>>))

\* _stoch, "Calculate Result" from fastk on
stoch_lines(df, kw, fastk, fast_k, slow_k, slow_d, inputs) ==
    stoch_frame(df, kw, fastk,
                RollMean(fastk, slow_d.v, slow_d.v - 1),
                RollMean(fastk, slow_k.v, slow_k.v),
                RollMean(RollMean(fastk, slow_k.v, slow_k.v), slow_d.v, slow_d.v),
                fast_k, slow_k, slow_d, inputs)

\* _stoch(df, high, low, close, fast_k=None, slow_k=None, slow_d=None,
\*        **kwargs), behind AnalysisIndicators.stoch: the periods are kept
\* uncast
stoch(df, kw) ==
    LET high == Resolve(df, Arg(kw, "high"), "high")
        low == Resolve(df, Arg(kw, "low"), "low")
        close == Resolve(df, Arg(kw, "close"), "close")
        f0 == KeepIfPositive(Arg(kw, "fast_k"), DefaultStochFastK)
        k0 == KeepIfPositive(Arg(kw, "slow_k"), DefaultStochSlowK)
        d0 == KeepIfPositive(Arg(kw, "slow_d"), DefaultStochSlowD)
        e == FirstErr(<<high, low, close, f0, k0, d0>>)
    IN  IF e # "" THEN Fail(df, e)
        ELSE IF \/ ~RollArgsOK(f0.val, MinusOne(f0.val))
                \/ ~RollArgsOK(d0.val, MinusOne(d0.val))
                \/ ~RollArgsOK(k0.val, k0.val)
        THEN Fail(df, "ValueError")
        ELSE LET lowest_low == RollMin(low.val.d, f0.val.v, f0.val.v - 1)
                 highest_high == RollMax(high.val.d, f0.val.v, f0.val.v - 1)
             IN  stoch_lines(df, kw,
                             SDiv(SScale(Num(100), SSub(close.val.d, lowest_low)),
                                  SSub(highest_high, lowest_low)),
                             f0.val, k0.val, d0.val,
                             [high |-> high.val.d, low |-> low.val.d,
                              close |-> close.val.d])

DefaultKstRoc1 == 10

DefaultKstRoc2 == 15

DefaultKstRoc3 == 20

DefaultKstRoc4 == 30

DefaultKstSma1 == 10

DefaultKstSma2 == 10

DefaultKstSma3 == 10

DefaultKstSma4 == 15

DefaultKstSignal == 9

\* (close.diff(roc) / close.shift(roc)).rolling(sma).mean()
RocMa(close, roc, sma) ==
    RollMean(SDiv(Diff(close, roc.v), Shift(close, roc.v)), sma.v, sma.v)

\* _kst from kst_signal on: the fills, the names, the append, the frame
kst_frame(df, kw, line, roc, sma, signal, inputs) ==
    LET sfx == Fmt(roc[1]) \o "_" \o Fmt(roc[2]) \o "_" \o Fmt(roc[3]) \o "_"
               \o Fmt(roc[4]) \o "_" \o Fmt(sma[1]) \o "_" \o Fmt(sma[2]) \o "_"
               \o Fmt(sma[3]) \o "_" \o Fmt(sma[4])
        k == Ser("KST_" \o sfx, "momentum", Fills(line, kw))
        g == Ser("KSTS_" \o Fmt(signal), "momentum",
                 Fills(RollMean(line, signal.v, signal.v), kw))
    IN  ReturnFrame(df, kw, "KST_" \o sfx \o "_" \o Fmt(signal), "momentum", <<k, g>>,
                    [roc1 |-> roc[1], roc2 |-> roc[2], roc3 |-> roc[3], roc4 |-> roc[4],
                     sma1 |-> sma[1], sma2 |-> sma[2], sma3 |-> sma[3], sma4 |-> sma[4],
                     signal |-> signal], inputs)

\* _kst(df, close=None, roc1..roc4=None, sma1..sma4=None, signal=None,
\*      drift=None, **kwargs), behind AnalysisIndicators.kst
kst(df, kw) ==
    LET close == Resolve(df, Arg(kw, "close"), "close")
        r1 == IntIfPositive(Arg(kw, "roc1"), DefaultKstRoc1)
        r2 == IntIfPositive(Arg(kw, "roc2"), DefaultKstRoc2)
        r3 == IntIfPositive(Arg(kw, "roc3"), DefaultKstRoc3)
        r4 == IntIfPositive(Arg(kw, "roc4"), DefaultKstRoc4)
        s1 == IntIfPositive(Arg(kw, "sma1"), DefaultKstSma1)
        s2 == IntIfPositive(Arg(kw, "sma2"), DefaultKstSma2)
        s3 == IntIfPositive(Arg(kw, "sma3"), DefaultKstSma3)
        s4 == IntIfPositive(Arg(kw, "sma4"), DefaultKstSma4)
        g0 == IntIfPositive(Arg(kw, "signal"), DefaultKstSignal)
        e == FirstErr(<<close, r1, r2, r3, r4, s1, s2, s3, s4, g0>>)
    IN  IF e # "" THEN Fail(df, e)
        ELSE kst_frame(df, kw,
                 SScale(Num(100),
                     SAdd(SAdd(RocMa(close.val.d, r1.val, s1.val),
                               SScale(Num(2), RocMa(close.val.d, r2.val, s2.val))),
                          SAdd(SScale(Num(3), RocMa(close.val.d, r3.val, s3.val)),
                               SScale(Num(4), RocMa(close.val.d, r4.val, s4.val))))),
                 <<r1.val, r2.val, r3.val, r4.val>>, <<s1.val, s2.val, s3.val, s4.val>>,
                 g0.val, [close |-> close.val.d])

DefaultFacadeDonchianLength == 20

\* AnalysisIndicators.donchian(close=None, length=None, **kwargs)
facade_donchian(df, kw) ==
    LET close == Resolve(df, Arg(kw, "close"), "close")
        l0 == IntIfPositive(Arg(kw, "length"), DefaultFacadeDonchianLength)
        length == l0.val
        mp == MinPeriods(kw, length)
        e == FirstErr(<<close, l0, mp>>)
    IN  IF e # "" THEN Fail(df, e)
        ELSE IF ~RollArgsOK(length, mp.val) THEN Fail(df, "ValueError")
        ELSE LET lower == RollMin(close.val.d, length.v, mp.val.v)
                 upper == RollMax(close.val.d, length.v, mp.val.v)
                 lo == Ser("DCL_" \o Fmt(length), "volatility", Fills(lower, kw))
                 mi == Ser("DCM_" \o Fmt(length), "volatility",
                           Fills(SScale(Q(1, 2), SAdd(lower, upper)), kw))
                 up == Ser("DCU_" \o Fmt(length), "volatility", Fills(upper, kw))
             IN  ReturnFrame(df, kw, "DC" \o Fmt(length), "volatility", <<lo, mi, up>>,
                             [length |-> length, min_periods |-> mp.val],
                             [close |-> close.val.d])

\* statistics.variance(close, length), as AnalysisIndicators.variance calls
\* it: the rolling sample variance over full windows
variance(close, length) == RollVar(close, length.v, length.v)

DefaultBbandsLength == 20

DefaultBbandsStdev == 2

\* `int(stdev) if stdev and stdev >= 0 else 2`
IntIfNotNegative(x, D) ==
    IF ~Truthy(x) THEN Val(PyInt(D))
    ELSE IF x.t = "str" THEN Raise("TypeError")
    ELSE IF x.t = "bool" THEN Val(PyInt(1))
    ELSE IF x.v >= 0 THEN Val(PyInt(IntOf(x))) ELSE Val(PyInt(D))

\* AnalysisIndicators.bbands from `lower = mid - stdev * std` on
bbands_frame(df, kw, mid, band, length, eff, inputs) ==
    LET lo == Ser("BBL_" \o Fmt(length), "volatility", Fills(SSub(mid, band), kw))
        mi == Ser("BBM_" \o Fmt(length), "volatility", Fills(mid, kw))
        up == Ser("BBU_" \o Fmt(length), "volatility", Fills(SAdd(mid, band), kw))
    IN  ReturnFrame(df, kw, "BBANDS" \o Fmt(length), "volatility", <<lo, mi, up>>,
                    eff, inputs)

\* AnalysisIndicators.bbands(close=None, length=None, stdev=None,
\*                           mamode=None, **kwargs): a mamode other than
\* None, 'sma' and 'ema' leaves mid unbound
bbands(df, kw) ==
    LET close == Resolve(df, Arg(kw, "close"), "close")
        l0 == IntIfPositive(Arg(kw, "length"), DefaultBbandsLength)
        length == l0.val
        mp == MinPeriods(kw, length)
        stdev == IntIfNotNegative(Arg(kw, "stdev"), DefaultBbandsStdev)
        mamode == IF Arg(kw, "mamode").t = "None" THEN Val(PyStr("sma"))
                  ELSE IF Arg(kw, "mamode").t = "str"
                  THEN Val(PyStr(Lower(Arg(kw, "mamode").s)))
                  ELSE Raise("AttributeError")
        e == FirstErr(<<close, l0, mp, stdev, mamode>>)
    IN  IF e # "" THEN Fail(df, e)
        ELSE IF mamode.val.s \notin {"sma", "ema"} THEN Fail(df, "UnboundLocalError")
        ELSE IF (mamode.val.s = "ema" /\ ~EwmArgsOK(length, mp.val))
                \/ (mamode.val.s = "sma" /\ ~RollArgsOK(length, mp.val))
        THEN Fail(df, "ValueError")
        ELSE bbands_frame(df, kw,
                 IF mamode.val.s = "sma" THEN RollMean(close.val.d, length.v, mp.val.v)
                 ELSE EwmMean(close.val.d, length.v, mp.val.v),
                 SScale(QOf(stdev.val), SSqrt(variance(close.val.d, length))),
                 length,
                 [length |-> length, min_periods |-> mp.val, stdev |-> stdev.val,
                  mamode |-> mamode.val],
                 [close |-> close.val.d])

DefaultKurtosisLength == 30

\* statistics.kurtosis(close, length=None, offset=None, **kwargs):
\* offset is kept only when it is an int, kwargs' fillna and fill_method
\* are not read, and append writes to a name the module does not define
kurtosis(close, kw) ==
    LET l0 == IntIfPositive(Arg(kw, "length"), DefaultKurtosisLength)
        length == l0.val
        mp == MinPeriods(kw, length)
        offset == IF Arg(kw, "offset").t = "int" THEN Arg(kw, "offset").v
                  ELSE IF Arg(kw, "offset").t = "bool" /\ Arg(kw, "offset").b THEN 1
                  ELSE 0
        e == FirstErr(<<l0, mp>>)
    IN  IF e # "" THEN RetErr(e)
        ELSE IF ~RollArgsOK(length, mp.val) THEN RetErr("ValueError")
        ELSE IF Appending(kw) THEN RetErr("NameError")
        ELSE RetSeries(Ser("KURT_" \o Fmt(length), "statistics",
                           Shift(RollKurt(close, length.v, mp.val.v), offset)),
                       [length |-> length, min_periods |-> mp.val,
                        offset |-> PyInt(offset)],
                       [close |-> close])

\* `float(c) if c and c > 0 else D`  (accbands' c)
FloatIfPositive(x, D) ==
    IF ~Truthy(x) THEN Val(PyInt(D))
    ELSE IF x.t = "str" THEN Raise("TypeError")
    ELSE IF x.t = "bool" THEN Val(PyFloat(1000))
    ELSE IF x.v > 0 THEN Val(FloatOf(x)) ELSE Val(PyInt(D))

\* AnalysisIndicators.kurtosis, log_return, percent_return after the column
\* lookup:  result = fn(close=close, ..., **kwargs), r its outcome;
\*          if 'append' in kwargs and kwargs['append']: df[result.name] = result
Delegate(df, kw, r) ==
    IF ~r.ok THEN Out(r, df) ELSE Out(r, MaybeAppend(df, kw, r.members))

\* AnalysisIndicators.kurtosis(close=None, length=None, offset=None, **kwargs)
facade_kurtosis(df, kw) ==
    LET close == Resolve(df, Arg(kw, "close"), "close")
    IN  IF ~close.ok THEN Fail(df, close.err)
        ELSE Delegate(df, kw, kurtosis(close.val.d, kw))

DefaultPercentReturnLength == 1

\* Series.pct_change(n): missing values are padded forward first, then
\* x / x.shift(n) - 1
PctChange(x, n) ==
    SSub(SDiv(FillMethod(x, "ffill"), Shift(FillMethod(x, "ffill"), n)),
         Series([i \in Idx |-> Num(1)]))

\* performance.percent_return(close, length=None, cumulative=False,
\*                            percent=False, offset=None, **kwargs):
\* the cumulative sum is multiplied by percent once more, and append writes
\* to a name the module does not define
percent_return(close, kw) ==
    LET l0 == IntIfPositive(Arg(kw, "length"), DefaultPercentReturnLength)
        length == l0.val
        offset == IF Arg(kw, "offset").t = "int" THEN Arg(kw, "offset").v
                  ELSE IF Arg(kw, "offset").t = "bool" /\ Arg(kw, "offset").b THEN 1
                  ELSE 0
        percent == IF Truthy(Arg(kw, "percent")) THEN Num(100) ELSE Num(1)
        cumulative == Truthy(Arg(kw, "cumulative"))
        pct == SScale(percent, PctChange(close, length.v))
    IN  IF ~l0.ok THEN RetErr(l0.err)
        ELSE IF Appending(kw) THEN RetErr("NameError")
        ELSE RetSeries(Ser((IF cumulative THEN "CUM_" ELSE "") \o "PCTRET_" \o Fmt(length),
                           "performance",
                           Shift(IF cumulative THEN SScale(percent, CumSum(pct)) ELSE pct,
                                 offset)),
                       [length |-> length, offset |-> PyInt(offset)],
                       [close |-> close])

DefaultLogReturnLength == 1

\* np.log on the powers of two, in units of ln 2: the exponent
Log(q) == IF IsNaN(q) THEN NaN ELSE Num(CHOOSE k \in 0..30 : q = Num(Pow(2, k)))

SLog(x) == Series([i \in Idx |-> Log(x[i])])

\* performance.log_return(close, length=None, cumulative=False,
\*                        percent=False, offset=None, **kwargs):
\* percent multiplies the differences once, before the cumulative sum
log_return(close, kw) ==
    LET l0 == IntIfPositive(Arg(kw, "length"), DefaultLogReturnLength)
        length == l0.val
        offset == IF Arg(kw, "offset").t = "int" THEN Arg(kw, "offset").v
                  ELSE IF Arg(kw, "offset").t = "bool" /\ Arg(kw, "offset").b THEN 1
                  ELSE 0
        percent == IF Truthy(Arg(kw, "percent")) THEN Num(100) ELSE Num(1)
        cumulative == Truthy(Arg(kw, "cumulative"))
        lr == SScale(percent, Diff(SLog(close), length.v))
    IN  IF ~l0.ok THEN RetErr(l0.err)
        ELSE IF Appending(kw) THEN RetErr("NameError")
        ELSE RetSeries(Ser((IF cumulative THEN "CUM_" ELSE "") \o "LOGRET_" \o Fmt(length),
                           "performance",
                           Shift(IF cumulative THEN CumSum(lr) ELSE lr, offset)),
                       [length |-> length, offset |-> PyInt(offset)],
                       [close |-> close])

\* AnalysisIndicators.percent_return(close=None, length=None,
\*     cumulative=False, percent=False, offset=None, **kwargs)
facade_percent_return(df, kw) ==
    LET close == Resolve(df, Arg(kw, "close"), "close")
    IN  IF ~close.ok THEN Fail(df, close.err)
        ELSE Delegate(df, kw, percent_return(close.val.d, kw))

DefaultUoFast == 7

DefaultUoFastW == 4

DefaultUoMedium == 14

DefaultUoMediumW == 2

DefaultUoSlow == 28

DefaultUoSlowW == 1

\* close.shift(drift).combine(low, min) and .combine(high, max): Python's
\* min and max of the previous close and the bar's low or high
Combine(pc, x, least) ==
    Series([i \in Idx |-> IF least THEN QMin(pc[i], x[i]) ELSE QMax(pc[i], x[i])])

\* bp.rolling(n).sum() / tr.rolling(n).sum()
UoAvg(bp, tr, n) == SDiv(RollSum(bp, n.v, n.v), RollSum(tr, n.v, n.v))

\* _uo from `bp = close - min_l_or_pc` on: the result is named, and the
\* append writes to df, a name _uo neither receives nor defines
uo_of(df, kw, close, lo, hi, fast, medium, slow, fw, mw, sw, inputs) ==
    IF Appending(kw) THEN Fail(df, "NameError")
    ELSE Out(RetSeries(
                 Ser("UO_" \o Fmt(fast) \o "_" \o Fmt(medium) \o "_" \o Fmt(slow),
                     "momentum",
                     Fills(SScale(QDiv(Num(100), QAdd(QAdd(fw, mw), sw)),
                               SAdd(SAdd(SScale(fw, UoAvg(SSub(close, lo), SSub(hi, lo), fast)),
                                         SScale(mw, UoAvg(SSub(close, lo), SSub(hi, lo), medium))),
                                    SScale(sw, UoAvg(SSub(close, lo), SSub(hi, lo), slow)))),
                           kw)),
                 [fast |-> fast, medium |-> medium, slow |-> slow], inputs),
             df)

\* AnalysisIndicators.uo(high=None, low=None, close=None, fast=None,
\*     medium=None, slow=None, fast_w=None, medium_w=None, slow_w=None,
\*     drift=None, **kwargs) and _uo, which it returns the result of
uo(df, kw) ==
    LET high == Resolve(df, Arg(kw, "high"), "high")
        low == Resolve(df, Arg(kw, "low"), "low")
        close == Resolve(df, Arg(kw, "close"), "close")
        f0 == IntIfPositive(Arg(kw, "fast"), DefaultUoFast)
        fw == FloatIfPositive(Arg(kw, "fast_w"), DefaultUoFastW)
        m0 == IntIfPositive(Arg(kw, "medium"), DefaultUoMedium)
        mw == FloatIfPositive(Arg(kw, "medium_w"), DefaultUoMediumW)
        s0 == IntIfPositive(Arg(kw, "slow"), DefaultUoSlow)
        sw == FloatIfPositive(Arg(kw, "slow_w"), DefaultUoSlowW)
        d0 == IntIfPositive(Arg(kw, "drift"), DefaultDrift)
        e == FirstErr(<<high, low, close, f0, fw, m0, mw, s0, sw, d0>>)
    IN  IF e # "" THEN Fail(df, e)
        ELSE uo_of(df, kw, close.val.d,
                   Combine(Shift(close.val.d, d0.val.v), low.val.d, TRUE),
                   Combine(Shift(close.val.d, d0.val.v), high.val.d, FALSE),
                   f0.val, m0.val, s0.val, QOf(fw.val), QOf(mw.val), QOf(sw.val),
                   [high |-> high.val.d, low |-> low.val.d, close |-> close.val.d])

\* the indicator methods of the accessor that the model covers
Methods ==
    {"apo", "ppo", "ao", "aroon", "macd", "massi", "tsi", "rsi",
     "true_range", "atr", "kc", "ad", "stoch", "kst", "donchian", "bbands",
     "kurtosis", "percent_return", "uo"}

\* the class-level aliases of those methods (`RelativeStrengthIndex = rsi`)
Aliases ==
    [a \in {"AbsolutePriceOscillator", "AwesomeOscillator", "MACD", "MassIndex",
            "PercentagePriceOscillator", "RelativeStrengthIndex",
            "TrueStrengthIndex", "AverageTrueRange", "KeltnerChannels",
            "TrueRange", "AccumDist"} |->
        CASE a = "AbsolutePriceOscillator" -> "apo"
          [] a = "AwesomeOscillator" -> "ao"
          [] a = "MACD" -> "macd"
          [] a = "MassIndex" -> "massi"
          [] a = "PercentagePriceOscillator" -> "ppo"
          [] a = "RelativeStrengthIndex" -> "rsi"
          [] a = "TrueStrengthIndex" -> "tsi"
          [] a = "AverageTrueRange" -> "atr"
          [] a = "KeltnerChannels" -> "kc"
          [] a = "TrueRange" -> "true_range"
          [] OTHER -> "ad"]

\* attributes of the accessor that are no indicators: the defaults method,
\* the table itself, and methods inherited or defined for the machinery
OtherAttrs == {"defaults", "_df", "__init__"}

\* the names getattr(self, name) finds
Attrs == Methods \cup DOMAIN Aliases \cup OtherAttrs

\* the method an attribute name is bound to
Target(name) == IF name \in DOMAIN Aliases THEN Aliases[name] ELSE name

\* fn(**kwargs) for an indicator method
Invoke(m, df, kw) ==
    CASE m = "apo" -> apo(df, kw)
      [] m = "ppo" -> ppo(df, kw)
      [] m = "ao" -> ao(df, kw)
      [] m = "aroon" -> aroon(df, kw)
      [] m = "macd" -> macd(df, kw)
      [] m = "massi" -> massi(df, kw)
      [] m = "tsi" -> tsi(df, kw)
      [] m = "rsi" -> rsi(df, kw)
      [] m = "true_range" -> true_range(df, kw)
      [] m = "atr" -> atr(df, kw)
      [] m = "kc" -> kc(df, kw)
      [] m = "ad" -> ad(df, kw)
      [] m = "stoch" -> stoch(df, kw)
      [] m = "kst" -> kst(df, kw)
      [] m = "donchian" -> facade_donchian(df, kw)
      [] m = "bbands" -> bbands(df, kw)
      [] m = "kurtosis" -> facade_kurtosis(df, kw)
      [] m = "percent_return" -> facade_percent_return(df, kw)
      [] m = "uo" -> uo(df, kw)

\* fn(**kwargs) for whatever getattr returned: a DataFrame is not callable,
\* __init__ and defaults need a positional argument
InvokeAttr(name, df, kw) ==
    IF Target(name) \in Methods THEN Invoke(Target(name), df, kw)
    ELSE IF name = "defaults" THEN defaults(df, kw)
    ELSE Fail(df, "TypeError")

\* the lines of __call__ after  indicator = fn(**kwargs),  o its outcome:
\* indicator.timed and indicator.alias are set on what fn returned, which
\* raises AttributeError when it returned None
Decorate(o, alias, timed) ==
    IF ~o.ret.ok THEN o
    ELSE IF o.ret.shape = "None" /\ (Truthy(timed) \/ Truthy(alias))
    THEN Out(RetErr("AttributeError"), o.df)
    ELSE Out([o.ret EXCEPT !.timed = Truthy(timed),
                           !.alias = IF Truthy(alias) THEN alias.s ELSE ""],
             o.df)

\* AnalysisIndicators.__call__(kind=None, alias=None, timed=False, **kwargs):
\*   try:    kind = kind.lower() if isinstance(kind, str) else None
\*           fn = getattr(self, kind.lower())
\*   except AttributeError:
\*           raise ValueError(f"kind='{kind.lower()}' is not valid for ...")
\* with kind no str, kind.lower() raises AttributeError inside the handler too
Dispatch(df, kind, alias, timed, kw) ==
    IF kind.t # "str" THEN Fail(df, "AttributeError")
    ELSE IF Lower(kind.s) \notin Attrs \/ (Lower(kind.s) = "_df" /\ df = NoTable)
    THEN Out([RetErr("ValueError") EXCEPT
                !.msg = "kind='" \o Lower(kind.s) \o "' is not valid for AnalysisIndicators"],
             df)
    ELSE Decorate(InvokeAttr(Lower(kind.s), df, kw), alias, timed)


-----------------------------------------------------------------------------
(* The module-level indicator functions (volatility, trend, statistics).   *)
(* They take series, not a table, and return the result or raise.          *)

\* utils.get_drift: the drift as a positive integer, 1 otherwise
get_drift(x) == IF IsNumber(x) /\ x.v > 0 THEN IntOf(x) ELSE 1

\* keyword arguments with one more keyword bound
With(kw, k, v) == [x \in (DOMAIN kw) \cup {k} |-> IF x = k THEN v ELSE kw[x]]

\* `if offset != 0: x = x.shift(offset)`
Offset(x, offset) == IF offset # 0 THEN Shift(x, offset) ELSE x

\* volatility.true_range(high, low, close, drift=None, offset=None, **kwargs)
volatility_true_range(high, low, close, kw) ==
    LET drift == get_drift(Arg(kw, "drift"))
        offset == get_offset(Arg(kw, "offset"))
        prev_close == Shift(close, drift)
        tr == RowAbsMax(SSub(high, low), SSub(high, prev_close), SSub(low, prev_close))
    IN  RetSeries(Ser("TRUERANGE_" \o ToString(drift), "volatility",
                      Fills(Offset(tr, offset), kw)),
                  [drift |-> PyInt(drift), offset |-> PyInt(offset)],
                  [high |-> high, low |-> low, close |-> close])

\* if mamode == 'ema': tr.ewm(span=length, ...).mean()
\* else:               tr.rolling(length, ...).mean()
Smooth(mamode, x, length, mp) ==
    IF mamode.s = "ema" THEN EwmMean(x, length, mp) ELSE RollMean(x, length, mp)

DefaultVolatilityAtrLength == 14

\* volatility.atr(high, low, close, length=None, mamode=None, drift=None,
\*                offset=None, **kwargs): offset first, fills after it
volatility_atr(high, low, close, kw) ==
    LET l0 == IntIfPositive(Arg(kw, "length"), DefaultVolatilityAtrLength)
        length == l0.val
        mp == MinPeriods(kw, length)
        mamode == MaMode(Arg(kw, "mamode"), "ema")
        drift == get_drift(Arg(kw, "drift"))
        offset == get_offset(Arg(kw, "offset"))
        e == FirstErr(<<l0, mp, mamode>>)
    IN  IF e # "" THEN RetErr(e)
        ELSE IF (mamode.val.s = "ema" /\ ~EwmArgsOK(length, mp.val))
                \/ (mamode.val.s # "ema" /\ ~RollArgsOK(length, mp.val))
        THEN RetErr("ValueError")
        ELSE LET tr == volatility_true_range(high, low, close,
                                             [drift |-> PyInt(drift)]).members[1].data
                 a == Smooth(mamode.val, tr, length.v, mp.val.v)
             IN  RetSeries(Ser("ATR_" \o Fmt(length), "volatility",
                               Fills(Offset(a, offset), kw)),
                           [length |-> length, min_periods |-> mp.val,
                            mamode |-> mamode.val, drift |-> PyInt(drift),
                            offset |-> PyInt(offset)],
                           [high |-> high, low |-> low, close |-> close])

DefaultNatrLength == 14

\* volatility.natr(high, low, close, length=None, mamode=None, drift=None,
\*                 offset=None, **kwargs): atr is called with the offset and
\* the kwargs, and its product with 100 / close is shifted by the offset
\* the lines after  atr(...):  a is what it returned
natr_of(high, low, close, kw, length, mamode, drift, offset, a) ==
    IF ~a.ok THEN RetErr(a.err)
    ELSE RetSeries(Ser("NATR_" \o Fmt(length), "volatility",
                       Fills(Offset(SMul(SRecip(Num(100), close), a.members[1].data),
                                    offset), kw)),
                   [length |-> length, mamode |-> mamode,
                    drift |-> PyInt(drift), offset |-> PyInt(offset)],
                   [high |-> high, low |-> low, close |-> close])

natr(high, low, close, kw) ==
    LET l0 == IntIfPositive(Arg(kw, "length"), DefaultNatrLength)
        length == l0.val
        mamode == MaMode(Arg(kw, "mamode"), "ema")
        drift == get_drift(Arg(kw, "drift"))
        offset == get_offset(Arg(kw, "offset"))
        e == FirstErr(<<l0, mamode>>)
    IN  IF e # "" THEN RetErr(e)
        ELSE natr_of(high, low, close, kw, length, mamode.val, drift, offset,
                     volatility_atr(high, low, close,
                                    With(With(With(With(kw, "length", length),
                                                   "mamode", mamode.val),
                                              "drift", PyInt(drift)),
                                         "offset", PyInt(offset))))

DefaultDonchianLength == 20

\* volatility.donchian(close, length=None, offset=None, **kwargs):
\* the fills are handled first and the offset after them
donchian(close, kw) ==
    LET l0 == IntIfPositive(Arg(kw, "length"), DefaultDonchianLength)
        length == l0.val
        mp == MinPeriods(kw, length)
        offset == get_offset(Arg(kw, "offset"))
        e == FirstErr(<<l0, mp>>)
    IN  IF e # "" THEN RetErr(e)
        ELSE IF ~RollArgsOK(length, mp.val) THEN RetErr("ValueError")
        ELSE LET lower == RollMin(close, length.v, mp.val.v)
                 upper == RollMax(close, length.v, mp.val.v)
                 mid == SScale(Q(1, 2), SAdd(lower, upper))
                 lo == Ser("DCL_" \o Fmt(length), "volatility",
                           Offset(Fills(lower, kw), offset))
                 mi == Ser("DCM_" \o Fmt(length), "volatility",
                           Offset(Fills(mid, kw), offset))
                 up == Ser("DCU_" \o Fmt(length), "volatility",
                           Offset(Fills(upper, kw), offset))
             IN  RetFrame("DC_" \o Fmt(length), "volatility", <<lo, mi, up>>,
                          [length |-> length, min_periods |-> mp.val,
                           offset |-> PyInt(offset)],
                          [close |-> close])

DefaultTrendAroonLength == 14

\* trend.aroon(close, length=None, offset=None, **kwargs): length is kept
\* uncast; the fills are handled first and the offset after them
trend_aroon(close, kw) ==
    LET l0 == KeepIfPositive(Arg(kw, "length"), DefaultTrendAroonLength)
        length == l0.val
        mp == MinPeriods(kw, length)
        offset == get_offset(Arg(kw, "offset"))
        e == FirstErr(<<l0, mp>>)
    IN  IF e # "" THEN RetErr(e)
        ELSE IF ~ApplyArgsOK(length, mp.val) THEN RetErr("ValueError")
        ELSE LET up == Ser("AROONU_" \o Fmt(length), "trend",
                           Offset(Fills(RollMaxIdx(close, length.v, mp.val.v), kw), offset))
                 down == Ser("AROOND_" \o Fmt(length), "trend",
                             Offset(Fills(RollMinIdx(close, length.v, mp.val.v), kw), offset))
             IN  RetFrame("AROON_" \o Fmt(length), "trend", <<up, down>>,
                          [length |-> length, min_periods |-> mp.val,
                           offset |-> PyInt(offset)],
                          [close |-> close])

DefaultAccbandsLength == 10

DefaultAccbandsC == 4

\* volatility.accbands(high, low, close, length=None, c=None, drift=None,
\*                     mamode=None, offset=None, **kwargs): a mamode other
\* than 'sma' and 'ema' leaves lower, mid and upper unbound
accbands(high, low, close, kw) ==
    LET l0 == IntIfPositive(Arg(kw, "length"), DefaultAccbandsLength)
        length == l0.val
        c == FloatIfPositive(Arg(kw, "c"), DefaultAccbandsC)
        mp == MinPeriods(kw, length)
        mamode == MaMode(Arg(kw, "mamode"), "sma")
        offset == get_offset(Arg(kw, "offset"))
        e == FirstErr(<<l0, c, mp, mamode>>)
    IN  IF e # "" THEN RetErr(e)
        ELSE IF mamode.val.s \notin {"sma", "ema"} THEN RetErr("UnboundLocalError")
        ELSE IF (mamode.val.s = "ema" /\ ~EwmArgsOK(length, mp.val))
                \/ (mamode.val.s = "sma" /\ ~RollArgsOK(length, mp.val))
        THEN RetErr("ValueError")
        ELSE LET hl_ratio == SScale(QOf(c.val), SDiv(SSub(high, low), SAdd(high, low)))
                 one == Series([i \in Idx |-> Num(1)])
                 lower_ == SMul(low, SSub(one, hl_ratio))
                 upper_ == SMul(high, SAdd(one, hl_ratio))
                 ma(x) == IF mamode.val.s = "sma" THEN RollMean(x, length.v, mp.val.v)
                          ELSE EwmMean(x, length.v, mp.val.v)
                 lo == Ser("ACCBL_" \o Fmt(length), "volatility",
                           Fills(Offset(ma(lower_), offset), kw))
                 mi == Ser("ACCBM_" \o Fmt(length), "volatility",
                           Fills(Offset(ma(close), offset), kw))
                 up == Ser("ACCBU_" \o Fmt(length), "volatility",
                           Fills(Offset(ma(upper_), offset), kw))
             IN  RetFrame("ACCBANDS_" \o Fmt(length), "volatility", <<lo, mi, up>>,
                          [length |-> length, c |-> c.val, min_periods |-> mp.val,
                           mamode |-> mamode.val, offset |-> PyInt(offset)],
                          [high |-> high, low |-> low, close |-> close])

\* statistics.stdev(close, length), as volatility.bbands calls it: the
\* square root of the rolling sample variance
stdev(close, length) == SSqrt(variance(close, length))

DefaultVolatilityBbandsLength == 20

DefaultVolatilityBbandsStd == 2

\* volatility.bbands(close, length=None, std=None, mamode=None, offset=None,
\*                   **kwargs): a mamode other than 'sma' and 'ema' leaves
\* mid unbound
volatility_bbands(close, kw) ==
    LET l0 == IntIfPositive(Arg(kw, "length"), DefaultVolatilityBbandsLength)
        length == l0.val
        mp == MinPeriods(kw, length)
        std == FloatIfPositive(Arg(kw, "std"), DefaultVolatilityBbandsStd)
        mamode == MaMode(Arg(kw, "mamode"), "ema")
        offset == get_offset(Arg(kw, "offset"))
        e == FirstErr(<<l0, mp, std, mamode>>)
    IN  IF e # "" THEN RetErr(e)
        ELSE IF mamode.val.s \notin {"sma", "ema"} THEN RetErr("UnboundLocalError")
        ELSE IF (mamode.val.s = "ema" /\ ~EwmArgsOK(length, mp.val))
                \/ (mamode.val.s = "sma" /\ ~RollArgsOK(length, mp.val))
        THEN RetErr("ValueError")
        ELSE LET mid == IF mamode.val.s = "sma" THEN RollMean(close, length.v, mp.val.v)
                        ELSE EwmMean(close, length.v, mp.val.v)
                 band == SScale(QOf(std.val), stdev(close, length))
                 lo == Ser("BBL_" \o Fmt(length), "volatility",
                           Fills(Offset(SSub(mid, band), offset), kw))
                 mi == Ser("BBM_" \o Fmt(length), "volatility",
                           Fills(Offset(mid, offset), kw))
                 up == Ser("BBU_" \o Fmt(length), "volatility",
                           Fills(Offset(SAdd(mid, band), offset), kw))
             IN  RetFrame("BBANDS_" \o Fmt(length), "volatility", <<lo, mi, up>>,
                          [length |-> length, std |-> std.val, min_periods |-> mp.val,
                           mamode |-> mamode.val, offset |-> PyInt(offset)],
                          [close |-> close])

DefaultVolatilityKcLength == 20

DefaultVolatilityKcScalar == 2

\* `mamode.lower() if mamode else None`
MaModeOrNone(x) == IF ~Truthy(x) THEN Val(None) ELSE MaMode(x, "")

\* volatility.kc, the lines after the branch: basis and band are what the
\* branch computed
\* lower = basis - scalar * band;  upper = basis + scalar * band
volatility_kc_bands(high, low, close, kw, length, mp, scalar, mamode, offset, basis, band) ==
    RetFrame("KC_" \o Fmt(length), "volatility",
             << Ser("KCL_" \o Fmt(length), "volatility",
                    Fills(Offset(SSub(basis, SScale(QOf(scalar), band)), offset), kw)),
                Ser("KCB_" \o Fmt(length), "volatility",
                    Fills(Offset(basis, offset), kw)),
                Ser("KCU_" \o Fmt(length), "volatility",
                    Fills(Offset(SAdd(basis, SScale(QOf(scalar), band)), offset), kw)) >>,
             [length |-> length, min_periods |-> mp, scalar |-> scalar,
              mamode |-> mamode, offset |-> PyInt(offset)],
             [high |-> high, low |-> low, close |-> close])

\* the 'ema' branch: an ewm of close, and band = atr(high, low, close),
\* band_atr what it returned (atr is given no length)
volatility_kc_ema(high, low, close, kw, length, mp, scalar, mamode, offset, band_atr) ==
    IF ~EwmArgsOK(length, mp) THEN RetErr("ValueError")
    ELSE IF ~band_atr.ok THEN RetErr(band_atr.err)
    ELSE volatility_kc_bands(high, low, close, kw, length, mp, scalar, mamode, offset,
                             EwmMean(close, length.v, mp.v),
                             band_atr.members[1].data)

\* the other branch: rolling means of the typical price and of high - low
volatility_kc_sma(high, low, close, kw, length, mp, scalar, mamode, offset) ==
    IF ~RollArgsOK(length, mp) THEN RetErr("ValueError")
    ELSE volatility_kc_bands(high, low, close, kw, length, mp, scalar, mamode, offset,
                             RollMean(hlc3(high, low, close), length.v, mp.v),
                             RollMean(SSub(high, low), length.v, mp.v))

\* volatility.kc(high, low, close, length=None, scalar=None, mamode=None,
\*               offset=None, **kwargs)
\* (std = variance(...).apply(np.sqrt) is computed and never used)
volatility_kc(high, low, close, kw) ==
    LET l0 == IntIfPositive(Arg(kw, "length"), DefaultVolatilityKcLength)
        mp == MinPeriods(kw, l0.val)
        sc == FloatIfPositive(Arg(kw, "scalar"), DefaultVolatilityKcScalar)
        mamode == MaModeOrNone(Arg(kw, "mamode"))
        offset == get_offset(Arg(kw, "offset"))
        e == FirstErr(<<l0, mp, sc, mamode>>)
    IN  IF e # "" THEN RetErr(e)
        ELSE IF mamode.val = PyStr("ema")
        THEN volatility_kc_ema(high, low, close, kw, l0.val, mp.val, sc.val,
                               mamode.val, offset,
                               volatility_atr(high, low, close, <<>>))
        ELSE volatility_kc_sma(high, low, close, kw, l0.val, mp.val, sc.val,
                               mamode.val, offset)

DefaultAdxLength == 14

\* the smallest magnitude utils.zero leaves alone
Epsilon == Q(1, 100000)

\* utils.zero: a value closer to zero than epsilon becomes 0
zero(x) == IF QLt(QSub(Num(0), Epsilon), x) /\ QLt(x, Epsilon) THEN Num(0) ELSE x

\* overlap.rma: Wilder's smoothing, ewm(com=length)
rma(x, length) == Series([i \in Idx |-> EwmCom(x, IntOf(length), i)])

\* (the mask kept open: the move itself whatever the other one is)
Unmasked(a, b) == a

\* ((a > b) & (a > 0)) * a: the mask is 0 or 1, and the product with a
\* missing move is missing
Masked(a, b) ==
    Series([i \in Idx |-> IF QGt(a[i], b[i]) /\ QGt(a[i], Num(0)) THEN a[i]
                          ELSE QMul(Num(0), a[i])])

\* up = high - high.shift(drift)
AdxUp(high, drift) == SSub(high, Shift(high, drift))

\* dn = low.shift(drift) - low
AdxDn(low, drift) == SSub(Shift(low, drift), low)

\* pos and neg after .apply(zero): what the smoothing is fed
AdxPos(high, low, drift) ==
    Series([i \in Idx |-> zero(Masked(AdxUp(high, drift), AdxDn(low, drift))[i])])

AdxNeg(high, low, drift) ==
    Series([i \in Idx |-> zero(Masked(AdxDn(low, drift), AdxUp(high, drift))[i])])

\* (100 / _atr) * rma(close=x, length=length)
AdxDm(a, x, length) == SMul(SRecip(Num(100), a), rma(x, length))

\* dx = 100 * (dmp - dmn).abs() / (dmp + dmn)
AdxDx(dmp, dmn) == SDiv(SScale(Num(100), SAbs(SSub(dmp, dmn))), SAdd(dmp, dmn))

\* trend.adx, the lines after  _atr = atr(...):  a is what it returned
adx_of(high, low, close, kw, length, drift, offset, a) ==
    IF ~a.ok THEN RetErr(a.err)
    ELSE LET dmp == AdxDm(a.members[1].data, AdxPos(high, low, drift), length)
             dmn == AdxDm(a.members[1].data, AdxNeg(high, low, drift), length)
             x == rma(AdxDx(dmp, dmn), length)
         IN  RetFrame("ADX_" \o Fmt(length), "trend",
                      << Ser("ADX_" \o Fmt(length), "trend", Fills(Offset(x, offset), kw)),
                         Ser("DMP_" \o Fmt(length), "trend",
                             Fills(Offset(dmp, offset), kw)),
                         Ser("DMN_" \o Fmt(length), "trend",
                             Fills(Offset(dmn, offset), kw)) >>,
                      [length |-> length, drift |-> PyInt(drift),
                       offset |-> PyInt(offset)],
                      [high |-> high, low |-> low, close |-> close])

\* trend.adx(high, low, close, length=None, drift=None, offset=None, **kwargs)
adx(high, low, close, kw) ==
    LET l0 == KeepIfPositive(Arg(kw, "length"), DefaultAdxLength)
        drift == get_drift(Arg(kw, "drift"))
        offset == get_offset(Arg(kw, "offset"))
    IN  IF ~l0.ok THEN RetErr(l0.err)
        ELSE adx_of(high, low, close, kw, l0.val, drift, offset,
                    volatility_atr(high, low, close, [length |-> l0.val]))

-----------------------------------------------------------------------------
(* State: the caller's table and the last call made on it                  *)

VARIABLES
    df,     \* the DataFrame the accessor extends (self._df)
    pre,    \* the table as it was before the last call
    call,   \* the last call: [via, fn, kind, alias, timed, kw]
    ret,    \* what the last call returned or raised
    calls   \* the number of calls made so far

vars == <<df, pre, call, ret, calls>>

\* bar data, defined for every index so that Bars can grow
CloseAt(i) == 9 + i + 2 * (i % 2)

ZigClose == Series([i \in Idx |-> Num(CloseAt(i))])

ZigHigh == Series([i \in Idx |-> Num(CloseAt(i) + 2)])

ZigLow == Series([i \in Idx |-> Num(CloseAt(i) - 1 - (i % 3))])

ZigOpen == Series([i \in Idx |-> Num(CloseAt(i) - 1)])

ZigVolume == Series([i \in Idx |-> Num(10 + 5 * (i % 2))])

ZigAdj == Series([i \in Idx |-> Num(2 * i)])

\* a market that only falls
FallingSeries == Series([i \in Idx |-> Num(30 - 3 * i)])

\* a flat market: the same price at every bar
FlatSeries == Series([i \in Idx |-> Num(7)])

\* a complete OHLCV table with one more column, 'adj'
FullTable ==
    [c \in {"open", "high", "low", "close", "volume", "adj"} |->
        CASE c = "open" -> ZigOpen
          [] c = "high" -> ZigHigh
          [] c = "low" -> ZigLow
          [] c = "close" -> ZigClose
          [] c = "volume" -> ZigVolume
          [] OTHER -> ZigAdj]

\* the table without one of its columns
Without(t, c) == [k \in (DOMAIN t) \ {c} |-> t[k]]

\* the tables an accessor is constructed over: complete, lacking one
\* column, without columns, and with a column but without rows
Given ==
    {FullTable, Without(FullTable, "close"), Without(FullTable, "open"),
     <<>>, [c \in {"close"} |-> <<>>]}

\* what the accessors so constructed hold
Tables == {init(t).df : t \in {g \in Given : init(g).ret.ok}}

\* the number of calls made on one table
MaxCalls == 2

NoCall ==
    [via |-> "none", fn |-> "", kind |-> None, alias |-> None,
     timed |-> PyBool(FALSE), kw |-> NoEff]

NoRet == RetErr("")

\* the call made and its outcome become the state
Record(via, fn, kind, alias, timed, kw, o) ==
    /\ pre' = df
    /\ df' = o.df
    /\ call' = [via |-> via, fn |-> fn, kind |-> kind, alias |-> alias,
                timed |-> timed, kw |-> kw]
    /\ ret' = o.ret
    /\ calls' = calls + 1

\* df.ta.<m>(**kw)
Method(m, kw, o) ==
    Record("method", m, None, None, PyBool(FALSE), kw, o)

\* <module>.<fn>(t.high, ..., **kw), called with the table's own columns
Apply(fn, t, kw) ==
    CASE fn = "volatility.true_range" ->
            volatility_true_range(t["high"], t["low"], t["close"], kw)
      [] fn = "volatility.atr" -> volatility_atr(t["high"], t["low"], t["close"], kw)
      [] fn = "volatility.natr" -> natr(t["high"], t["low"], t["close"], kw)
      [] fn = "volatility.donchian" -> donchian(t["close"], kw)
      [] fn = "volatility.accbands" -> accbands(t["high"], t["low"], t["close"], kw)
      [] fn = "volatility.bbands" -> volatility_bbands(t["close"], kw)
      [] fn = "volatility.kc" -> volatility_kc(t["high"], t["low"], t["close"], kw)
      [] fn = "performance.log_return" -> log_return(kw["close"].d, kw)
      [] fn = "trend.adx" -> adx(t["high"], t["low"], t["close"], kw)
      [] fn = "trend.aroon" -> trend_aroon(t["close"], kw)
      [] fn = "statistics.kurtosis" -> kurtosis(t["close"], kw)

\* the outcome of the call c made on the table t
Run(c, t) ==
    CASE c.via = "__call__" -> Dispatch(t, c.kind, c.alias, c.timed, c.kw)
      [] c.via = "method" /\ c.fn = "defaults" -> defaults(t, c.kw)
      [] c.via = "method" /\ c.fn # "defaults" -> Invoke(c.fn, t, c.kw)
      [] c.via = "function" -> Out(Apply(c.fn, t, c.kw), t)

\* <module>.<fn>(df.high, ..., **kw): the table is only read
Function(fn, kw, r) ==
    Record("function", fn, None, None, PyBool(FALSE), kw, Out(r, df))

\* the values the calls are made with
Switch == {Absent, PyBool(TRUE)}

ColRefs ==
    {Absent, PyStr("adj"), PyStr("nope"), PyStr(""), PyStr("APO_12_26"), PySeries(ZigAdj)}

Lengths ==
    {Absent, PyInt(2), PyInt(0), PyInt(-1), PyFloat(500), PyFloat(2500), PyStr("abc")}

Spans == {Absent, PyInt(1), PyInt(2), PyInt(3)}

Periods == {Absent, PyInt(1), PyInt(0), PyInt(-1), PyStr("abc")}

Drifts == {Absent, PyInt(2), PyInt(0), PyInt(-1), PyFloat(500)}

FillValues == {Absent, PyInt(0)}

FillMethods == {Absent, PyStr("ffill"), PyStr("bfill")}

Offsets == {Absent, PyInt(0), PyInt(1), PyInt(2), PyInt(-1)}

MaModes == {Absent, PyStr("sma"), PyStr("EMA")}

\* (the exponential weights of a long span outgrow the integers of the
\* checker within a few bars: where min_periods lets such an average
\* start, the spans passed are short)
Short == Spans \ {Absent}

ApoArgs ==
    [close : ColRefs, min_periods : {PyInt(1)}]
    \cup [append : {PyBool(TRUE), PyBool(FALSE)}]
    \cup [fast : Lengths, min_periods : {Absent, PyInt(1)}]
    \cup [fast : Short, slow : Short, min_periods : {PyInt(1)}]
    \cup [fast : {PyInt(2)}, min_periods : Periods, fillna : FillValues]
    \cup [fast : {PyInt(2)}, fillna : {PyInt(0)}, fill_method : FillMethods]
    \cup [fast : {PyInt(3)}, slow : {PyInt(2)}]

PpoArgs ==
    [fast : Short, slow : Short, min_periods : {PyInt(1)}]
    \cup [fast : {PyInt(2)}, slow : {Absent, PyInt(3)}]
    \cup [fast : {PyFloat(500)}, min_periods : {PyInt(1)}]

AoArgs ==
    [fast : Short, slow : Short]
    \cup [fast : {Absent, PyFloat(2500)}]
    \cup [append : {PyBool(TRUE)}]

AroonArgs ==
    [close : {Absent, PyStr("adj")}, length : Lengths \cup {PyInt(3)}]
    \cup [length : {PyInt(2)}, offset : Offsets, fillna : FillValues]

MacdArgs ==
    [fast : Short, slow : Short, signal : {PyInt(2)}, min_periods : {PyInt(1)}]
    \cup [append : Switch]

MassiArgs ==
    [fast : {PyInt(1)}, slow : Short, min_periods : {PyInt(1)}]
    \cup [fast : Short, slow : {PyInt(1)}, min_periods : {PyInt(1)}]
    \cup [append : Switch]

TsiArgs == [fast : Short, slow : Short]

RsiArgs ==
    [close : {Absent, PyStr("adj")}, length : Lengths]
    \cup [close : {PyStr("adj"), PySeries(FallingSeries), PySeries(FlatSeries)},
          length : {Absent, PyInt(2)}, drift : {Absent, PyInt(2)}]
    \cup [length : {PyInt(2)}, drift : {PyInt(2), PyInt(0)}]

TrueRangeArgs ==
    [length : {Absent, PyInt(2)}, drift : Drifts \cup {PyStr("abc")}]
    \cup [min_periods : Periods]
    \cup [append : {PyBool(TRUE)}]
    \cup [high : {PySeries(FlatSeries)}, low : {PySeries(FlatSeries)},
          close : {PySeries(FlatSeries)}, drift : {Absent, PyInt(2)}]

AtrArgs ==
    [length : Lengths]
    \cup [length : {PyInt(2)}, mamode : MaModes]
    \cup [length : {PyInt(2)}, append : {PyBool(TRUE)}]
    \cup [length : {PyInt(2)}, min_periods : Periods]

KcArgs ==
    [high : {Absent, PyStr("adj")}, length : {Absent, PyInt(2)},
     mamode : {Absent, PyStr("ema")}]
    \cup [length : {PyInt(2)}, scalar : {PyInt(1), PyInt(0), PyFloat(500), PyStr("abc")},
          min_periods : {PyInt(1)}]
    \cup [length : {PyInt(2)}, append : {PyBool(TRUE)}]

AdArgs ==
    [open_ : {Absent, PyStr("open"), PyStr("nope"), PySeries(ZigOpen)}]
    \cup [open_ : {Absent, PyStr("open")}, append : {PyBool(TRUE)}]
    \cup [offset : {Absent, PyInt(1)}, fillna : FillValues]

StochArgs ==
    [fast_k : {Absent, PyInt(2), PyInt(3)}, slow_k : {Absent, PyInt(2)},
     slow_d : {Absent, PyInt(2), PyInt(3)}]
    \cup [fast_k : {PyInt(1), PyFloat(2500), PyStr("abc")}]
    \cup [fast_k : {PyInt(2)}, slow_k : {PyInt(2)}, slow_d : {PyInt(2)},
          append : {PyBool(TRUE)}]
    \cup [fast_k : {PyInt(3)}, slow_k : {PyInt(1)}, slow_d : {PyInt(2)},
          append : {PyBool(TRUE)}]

KstSmas == [sma1 : {PyInt(1)}, sma2 : {PyInt(1)}, sma3 : {PyInt(1)}, sma4 : {PyInt(1)}]

KstArgs ==
    {r @@ m : r \in [roc1 : {Absent, PyInt(1)}, roc2 : {PyInt(1)}, roc3 : {PyInt(1), PyInt(2)},
                      roc4 : {PyInt(1)}, signal : {PyInt(1), PyInt(2)}],
              m \in KstSmas}
    \cup {r @@ m : r \in [roc1 : {PyInt(1)}, roc2 : {PyInt(1)}, roc3 : {PyInt(1)},
                           roc4 : {PyInt(1)}, signal : {PyInt(2)},
                           append : {PyBool(TRUE)}],
                   m \in KstSmas}
    \cup [append : {Absent}]

FacadeDonchianArgs ==
    [length : {Absent, PyInt(2)}, min_periods : {Absent, PyInt(1)}, fillna : FillValues]
    \cup [length : {PyInt(2)}, append : {PyBool(TRUE)}]

BbandsArgs ==
    [length : {Absent, PyInt(2), PyInt(3)},
     stdev : {Absent, PyInt(1), PyInt(0), PyFloat(2500)},
     mamode : MaModes \cup {PyStr("wma")}]
    \cup [close : {Absent, PyStr("adj")}, length : {PyInt(2)}, min_periods : {PyInt(1)}]
    \cup [length : {PyInt(2)}, mamode : {Absent, PyStr("ema")}, append : {PyBool(TRUE)}]

FacadeKurtosisArgs ==
    [close : {Absent, PyStr("adj")}, length : {Absent, PyInt(4)}, append : Switch]
    \cup [length : {PyInt(4)}, offset : {Absent, PyInt(1)}, fillna : FillValues]

PercentReturnArgs ==
    [close : {Absent, PyStr("adj")}, length : {Absent, PyInt(2), PyInt(0)},
     append : Switch]
    \cup [cumulative : Switch, percent : Switch, offset : {Absent, PyInt(1)}]

UoArgs ==
    [fast : {Absent, PyInt(1), PyInt(2)}, medium : {PyInt(2)}, slow : {PyInt(2), PyInt(3)},
     append : Switch]
    \cup [fast : {PyInt(1)}, medium : {PyInt(1)}, slow : {PyInt(2)},
          drift : {Absent, PyInt(2)}, fast_w : {Absent, PyFloat(1500), PyStr("abc")}]
    \cup [append : Switch]

DefaultsArgs ==
    [value : {Absent, PyBool(TRUE), PyBool(FALSE)}, max_range : {Absent, PyInt(20)}]
    \cup [value : {PyBool(TRUE)}, every : {PyInt(0)}]

\* kinds passed to the accessor call: canonical names in several letter
\* cases, class-level aliases, other attributes, unknown names, no str
Kinds ==
    {PyStr("rsi"), PyStr("RSI"), PyStr("apo"), PyStr("Apo"), PyStr("macd"),
     PyStr("MACD"), PyStr("true_range"), PyStr("True_Range"), PyStr("kc"), PyStr("KC"),
     PyStr("RelativeStrengthIndex"), PyStr("TrueRange"),
     PyStr("AbsolutePriceOscillator"), PyStr("KeltnerChannels"),
     PyStr("nonexistent"), PyStr(""), PyStr("defaults"), PyStr("_df"),
     None, PyInt(5)}

\* alias and timed of the accessor call
Plain == [alias : {None}, timed : {PyBool(FALSE)}]

Extras == [alias : {None, PyStr("mine")}, timed : {PyBool(FALSE), PyBool(TRUE)}]

\* the accessor calls made: every kind plainly, some kinds with extras
CallArgs ==
    [kind : Kinds, x : Plain,
     kw : [append : {Absent}]
          \cup [value : {PyBool(TRUE)}]
          \cup [length : {PyInt(2)}, fast : {PyInt(2)}, slow : {PyInt(1)},
                min_periods : {PyInt(1)}]]
    \cup [kind : {PyStr("RSI"), PyStr("defaults"), PyStr("nonexistent")},
          x : Extras \ Plain, kw : [value : {PyBool(TRUE)}]]
    \cup [kind : {PyStr("RSI"), PyStr("KeltnerChannels"), PyStr("nonexistent"), None},
          x : Plain, kw : [append : {PyBool(TRUE)}]]

VTrueRangeArgs ==
    [drift : Drifts] \cup [offset : {PyInt(0), PyInt(1)}, fillna : FillValues]

VAtrArgs ==
    [length : {Absent}]
    \cup [length : Lengths, min_periods : {PyInt(1)}]
    \cup [length : {PyInt(2)}, min_periods : Periods]
    \cup [length : {PyInt(2)}, mamode : MaModes]
    \cup [length : {PyInt(2)}, offset : Offsets, fillna : FillValues]
    \cup [length : {PyInt(2)}, offset : {Absent, PyInt(1)},
          fillna : {PyInt(0), PyFloat(500)}, fill_method : FillMethods]

NatrArgs ==
    [length : {Absent}]
    \cup [length : {PyInt(2)}, offset : Offsets, fillna : FillValues]
    \cup [length : {Absent, PyInt(2)}, mamode : {PyStr("sma")}]

DonchianArgs ==
    [length : {PyInt(2)}, offset : Offsets, fillna : FillValues]
    \cup [length : {Absent, PyInt(2)}, offset : {Absent, PyInt(1)},
          fill_method : FillMethods \ {Absent}]
    \cup [length : {PyInt(2)}, offset : {PyInt(1)}, fillna : {PyInt(0)},
          fill_method : FillMethods]

TrendAroonArgs ==
    [length : {Absent, PyInt(1)}]
    \cup [length : Lengths \cup {PyInt(3)}, min_periods : {PyInt(1)}]
    \cup [length : {PyInt(2)}, offset : Offsets, fillna : FillValues]

AccbandsArgs ==
    [length : Lengths]
    \cup [length : {PyInt(2)}, c : {PyInt(2), PyStr("abc")}]
    \cup [length : {PyInt(2)}, mamode : MaModes \cup {PyStr("ema"), PyStr("wma")}]
    \cup [length : {PyInt(2)}, min_periods : {PyInt(1), PyStr("abc")},
          offset : {Absent, PyInt(1)}]

VBbandsArgs ==
    [length : {Absent, PyInt(2), PyInt(3)},
     mamode : MaModes \cup {PyStr("ema"), PyStr("wma"), PyInt(1)}]
    \cup [length : {PyInt(2)}, std : {Absent, PyInt(1), PyFloat(1500), PyStr("abc")},
          min_periods : {PyInt(1)}, offset : {Absent, PyInt(1)}]

VKcArgs ==
    [length : {Absent, PyInt(2)}, mamode : {Absent, PyStr("ema"), PyStr("sma")}]
    \cup [length : {PyInt(2)}, scalar : {PyInt(1), PyInt(0), PyFloat(500)},
          min_periods : {PyInt(1)}, mamode : {Absent, PyStr("EMA")},
          offset : {Absent, PyInt(1)}]

\* closes that are powers of two: 8, 2, 16, 4, 1, ...
PowSeries == Series([i \in Idx |-> Num(Pow(2, (3 * i) % 5))])

LogReturnArgs ==
    [close : {PySeries(PowSeries)},
     length : {Absent, PyInt(2)}, cumulative : Switch, percent : Switch,
     offset : {Absent, PyInt(1)}]

AdxArgs ==
    [length : {Absent, PyInt(1), PyInt(2), PyStr("abc")}, drift : {Absent, PyInt(2)}]
    \cup [length : {PyInt(2)}, offset : {PyInt(1)}, fillna : FillValues]

KurtosisArgs ==
    [length : {Absent, PyInt(4), PyInt(3), PyFloat(500)}]
    \cup [length : {PyInt(4)}, min_periods : Periods]
    \cup [length : {PyInt(4)}, offset : Offsets \cup {PyFloat(1000)}, fillna : FillValues]
    \cup [length : {PyInt(4)}, append : {PyBool(TRUE)}]

\* The accessor keeps no state but the table. A call that left the table
\* as it was is therefore followed by nothing: whatever could follow it
\* follows the state before it.
CanCall == calls < MaxCalls /\ (calls = 0 \/ df # pre)

Init ==
    /\ df \in Tables
    /\ pre = df
    /\ call = NoCall
    /\ ret = NoRet
    /\ calls = 0

\* df.ta(kind=..., alias=..., timed=..., **kw)
Call ==
    /\ CanCall
    /\ \E c \in CallArgs :
          Record("__call__", "", c.kind, c.x.alias, c.x.timed, c.kw,
                 Dispatch(df, c.kind, c.x.alias, c.x.timed, c.kw))

Defaults ==
    /\ CanCall
    /\ \E kw \in DefaultsArgs :
          Record("method", "defaults", None, None, PyBool(FALSE), kw, defaults(df, kw))

Apo == CanCall /\ \E kw \in ApoArgs : Method("apo", kw, apo(df, kw))

Ppo == CanCall /\ \E kw \in PpoArgs : Method("ppo", kw, ppo(df, kw))

Ao == CanCall /\ \E kw \in AoArgs : Method("ao", kw, ao(df, kw))

Aroon == CanCall /\ \E kw \in AroonArgs : Method("aroon", kw, aroon(df, kw))

Macd == CanCall /\ \E kw \in MacdArgs : Method("macd", kw, macd(df, kw))

Massi == CanCall /\ \E kw \in MassiArgs : Method("massi", kw, massi(df, kw))

Tsi == CanCall /\ \E kw \in TsiArgs : Method("tsi", kw, tsi(df, kw))

Rsi == CanCall /\ \E kw \in RsiArgs : Method("rsi", kw, rsi(df, kw))

TrueRange == CanCall /\ \E kw \in TrueRangeArgs : Method("true_range", kw, true_range(df, kw))

Atr == CanCall /\ \E kw \in AtrArgs : Method("atr", kw, atr(df, kw))

Kc == CanCall /\ \E kw \in KcArgs : Method("kc", kw, kc(df, kw))

Ad == CanCall /\ \E kw \in AdArgs : Method("ad", kw, ad(df, kw))

Stoch == CanCall /\ \E kw \in StochArgs : Method("stoch", kw, stoch(df, kw))

Kst == CanCall /\ \E kw \in KstArgs : Method("kst", kw, kst(df, kw))

FacadeDonchian ==
    CanCall /\ \E kw \in FacadeDonchianArgs : Method("donchian", kw, facade_donchian(df, kw))

Bbands == CanCall /\ \E kw \in BbandsArgs : Method("bbands", kw, bbands(df, kw))

FacadeKurtosis ==
    CanCall /\ \E kw \in FacadeKurtosisArgs : Method("kurtosis", kw, facade_kurtosis(df, kw))

PercentReturn ==
    /\ CanCall
    /\ \E kw \in PercentReturnArgs :
          Method("percent_return", kw, facade_percent_return(df, kw))

Uo == CanCall /\ \E kw \in UoArgs : Method("uo", kw, uo(df, kw))

\* the module-level functions are called with the table's own columns
HasHLC == {"high", "low", "close"} \subseteq Columns(df)

VTrueRange ==
    /\ CanCall /\ HasHLC
    /\ \E kw \in VTrueRangeArgs : Function("volatility.true_range", kw,
                   volatility_true_range(df["high"], df["low"], df["close"], kw))

VAtr ==
    /\ CanCall /\ HasHLC
    /\ \E kw \in VAtrArgs : Function("volatility.atr", kw,
                   volatility_atr(df["high"], df["low"], df["close"], kw))

Natr ==
    /\ CanCall /\ HasHLC
    /\ \E kw \in NatrArgs : Function("volatility.natr", kw,
                   natr(df["high"], df["low"], df["close"], kw))

Donchian ==
    /\ CanCall /\ "close" \in Columns(df)
    /\ \E kw \in DonchianArgs : Function("volatility.donchian", kw,
                   donchian(df["close"], kw))

TrendAroon ==
    /\ CanCall /\ "close" \in Columns(df)
    /\ \E kw \in TrendAroonArgs : Function("trend.aroon", kw,
                   trend_aroon(df["close"], kw))

Accbands ==
    /\ CanCall /\ HasHLC
    /\ \E kw \in AccbandsArgs : Function("volatility.accbands", kw,
                   accbands(df["high"], df["low"], df["close"], kw))

VBbands ==
    /\ CanCall /\ "close" \in Columns(df)
    /\ \E kw \in VBbandsArgs : Function("volatility.bbands", kw,
                   volatility_bbands(df["close"], kw))

VKc ==
    /\ CanCall /\ HasHLC
    /\ \E kw \in VKcArgs : Function("volatility.kc", kw,
                   volatility_kc(df["high"], df["low"], df["close"], kw))

LogReturn ==
    /\ CanCall
    /\ \E kw \in LogReturnArgs : Function("performance.log_return", kw,
                   log_return(kw["close"].d, kw))

Adx ==
    /\ CanCall /\ HasHLC
    /\ \E kw \in AdxArgs : Function("trend.adx", kw,
                   adx(df["high"], df["low"], df["close"], kw))

Kurtosis ==
    /\ CanCall /\ "close" \in Columns(df)
    /\ \E kw \in KurtosisArgs : Function("statistics.kurtosis", kw,
                   kurtosis(df["close"], kw))

Next ==
    \/ Call
    \/ Defaults
    \/ Apo
    \/ Ppo
    \/ Ao
    \/ Aroon
    \/ Macd
    \/ Massi
    \/ Tsi
    \/ Rsi
    \/ TrueRange
    \/ Atr
    \/ Kc
    \/ Ad
    \/ Stoch
    \/ Kst
    \/ FacadeDonchian
    \/ Bbands
    \/ FacadeKurtosis
    \/ PercentReturn
    \/ Uo
    \/ VTrueRange
    \/ VAtr
    \/ Natr
    \/ Donchian
    \/ TrendAroon
    \/ Accbands
    \/ VBbands
    \/ VKc
    \/ LogReturn
    \/ Adx
    \/ Kurtosis

Spec == Init /\ [][Next]_vars

TypeOK ==
    /\ calls \in 0..MaxCalls
    /\ ret.ok \in BOOLEAN


-----------------------------------------------------------------------------
(* The claims                                                              *)

\* the column arguments of each indicator method and the column of the
\* table each falls back to
ColArgs(m) ==
    CASE m \in {"apo", "ppo", "macd", "tsi", "rsi", "aroon", "kst", "donchian", "bbands",
              "kurtosis", "percent_return"} ->
            {<<"close", "close">>}
      [] m \in {"ao", "massi"} -> {<<"high", "high">>, <<"low", "low">>}
      [] m \in {"true_range", "atr", "kc", "stoch", "uo"} ->
            {<<"high", "high">>, <<"low", "low">>, <<"close", "close">>}
      [] m = "ad" ->
            {<<"high", "high">>, <<"low", "low">>, <<"close", "close">>,
             <<"volume", "volume">>, <<"open_", "open">>}

\* the kind is a canonical indicator name in some letter case, or an alias
Names(kind) ==
    kind.t = "str" /\ (Lower(kind.s) \in Methods \/ kind.s \in DOMAIN Aliases)

\* the indicator such a kind names
Named(kind) == IF kind.s \in DOMAIN Aliases THEN Aliases[kind.s] ELSE Lower(kind.s)

\* the last call ran an indicator method, directly or through the accessor
RanMethod ==
    \/ call.via = "method" /\ call.fn \in Methods
    \/ call.via = "__call__" /\ call.kind.t = "str" /\ Lower(call.kind.s) \in Methods

TheMethod == IF call.via = "method" THEN call.fn ELSE Lower(call.kind.s)

\* the column argument a of the last call names neither a series nor a column
Unresolved(a) ==
    /\ Arg(call.kw, a).t # "Series"
    /\ ~(Arg(call.kw, a).t = "str" /\ Arg(call.kw, a).s \in Columns(pre))

\* the series the last call used for its column argument a is the one the
\* resolution rule names: the series passed, the column named, the default d
UsesResolved(a, d) ==
    IF Arg(call.kw, a).t = "Series" THEN ret.inputs[a] = Arg(call.kw, a).d
    ELSE IF ~Unresolved(a) THEN ret.inputs[a] = pre[Arg(call.kw, a).s]
    ELSE d \in Columns(pre) /\ ret.inputs[a] = pre[d]

\* ad's open_ was left None: the method then resolves nothing for it
OpenLeftNone(a) == a = "open_" /\ Arg(call.kw, a).t = "None"

\* C1: an accessor call whose kind is the canonical name of an indicator in
\* any letter case, or a class-level alias of it, returns what calling the
\* indicator's method with the same arguments returns, and leaves the table
\* as that call leaves it.
C1_FacadeDispatch ==
    (call.via = "__call__" /\ Names(call.kind)) =>
        Out([ret EXCEPT !.alias = "", !.timed = FALSE], df)
            = Invoke(Named(call.kind), pre, call.kw)

\* C1, reached: a canonical name in upper case was dispatched to its method
C1_Witness ==
    /\ call.via = "__call__" /\ call.kind = PyStr("RSI")
    /\ ret.ok /\ ret.name = "RSI_2"

\* C2: an accessor call whose kind is a string that names no indicator
\* fails with ValueError naming the kind, and the table is left unchanged.
C2_UnknownKind ==
    (call.via = "__call__" /\ call.kind.t = "str" /\ ~Names(call.kind)) =>
        /\ ~ret.ok /\ ret.err = "ValueError"
        /\ ret.msg = "kind='" \o Lower(call.kind.s) \o "' is not valid for AnalysisIndicators"
        /\ df = pre

\* C2, reached: 'nonexistent' was refused
C2_Witness ==
    /\ call.via = "__call__" /\ call.kind = PyStr("nonexistent")
    /\ ret.err = "ValueError" /\ df = pre

RanIndicator == RanMethod \/ call.via = "function"

\* the last call made again on the same table with other keyword arguments
Rerun(kw) == Run([call EXCEPT !.kw = kw], pre)

\* the last call made again with the keyword k not passed
Without1(k) == Rerun(With(call.kw, k, Absent))

\* a valid length: a positive integer
ValidLength(x) == x.t = "int" /\ x.v >= 1

LengthKeys == {"length", "fast", "slow", "signal"}

\* C5: the effective value of every length-type parameter is an integer
\* >= 1, and a supplied number that is no positive integer (zero, negative,
\* a fraction) gives the outcome of the call made without it, the default.
C5_LengthNormalized ==
    RanIndicator =>
        \A k \in LengthKeys :
            /\ (ret.ok /\ k \in DOMAIN ret.eff) => ValidLength(ret.eff[k])
            /\ (Has(call.kw, k) /\ IsNumber(call.kw[k]) /\ ~ValidLength(call.kw[k]))
                  => Out(ret, df) = Without1(k)

\* C5, reached: a negative length fell back to the default
C5_Witness ==
    /\ call.via = "function" /\ call.fn = "volatility.atr"
    /\ Arg(call.kw, "length") = PyInt(-1)
    /\ ret.ok /\ ret.eff["length"] = PyInt(DefaultVolatilityAtrLength)

TolerantKeys == {"length", "fast", "slow", "c", "scalar", "min_periods"}

\* C6: a string passed for length, fast, slow, c, scalar or min_periods
\* never makes the call fail: the outcome is that of the call made without
\* the parameter, its default.
C6_TolerantValidation ==
    RanIndicator =>
        \A k \in TolerantKeys :
            (Has(call.kw, k) /\ call.kw[k].t = "str") => Out(ret, df) = Without1(k)

\* C6, reached: a call passed a string for a length
C6_Witness ==
    /\ call.via = "function" /\ call.fn = "volatility.accbands"
    /\ Arg(call.kw, "length") = PyStr("abc")

\* the last call returned the values and the names o holds
SameResult(o) ==
    /\ ret.ok = o.ret.ok
    /\ ret.name = o.ret.name
    /\ ret.members = o.ret.members

FastSlowMethods == {"apo", "ao", "macd", "massi", "ppo", "tsi"}

\* C7: for the indicators taking a fast/slow pair and positive integers
\* a, b, the call with (fast=a, slow=b) returns the values and the names
\* of the call with (fast=b, slow=a), and the effective fast <= slow.
C7_FastSlowSwap ==
    (/\ RanMethod /\ TheMethod \in FastSlowMethods
     /\ ValidLength(Arg(call.kw, "fast")) /\ ValidLength(Arg(call.kw, "slow"))) =>
        /\ SameResult(Rerun(With(With(call.kw, "fast", call.kw["slow"]),
                                  "slow", call.kw["fast"])))
        /\ ret.ok => ret.eff["fast"].v <= ret.eff["slow"].v

\* C7, reached: apo called with fast above slow computed with the pair swapped
C7_Witness ==
    /\ call.via = "method" /\ call.fn = "apo"
    /\ Arg(call.kw, "fast") = PyInt(3) /\ Arg(call.kw, "slow") = PyInt(2)
    /\ ret.ok /\ ret.name = "APO_2_3"

\* C8: the effective min_periods and drift are integers >= 1, and an
\* override that is zero or negative gives the outcome of the call made
\* without it (min_periods = length or fast, drift = 1).
C8_PeriodsAndDrift ==
    RanIndicator =>
        \A k \in {"min_periods", "drift"} :
            /\ (ret.ok /\ k \in DOMAIN ret.eff) => ValidLength(ret.eff[k])
            /\ (Has(call.kw, k) /\ IsNumber(call.kw[k]) /\ call.kw[k].v <= 0)
                  => Out(ret, df) = Without1(k)

\* C8, reached: a zero drift became 1
C8_Witness ==
    /\ call.via = "method" /\ call.fn = "rsi"
    /\ Arg(call.kw, "drift") = PyInt(0)
    /\ ret.ok /\ ret.eff["drift"] = PyInt(1)

\* the calls that take offset: the module-level functions, and the
\* accessor's aroon and ad
TakesOffset ==
    \/ call.via = "function"
    \/ RanMethod /\ TheMethod \in {"aroon", "ad"}

NoFills == ~Has(call.kw, "fillna") /\ ~Has(call.kw, "fill_method")

\* every member of the last result is the member of o shifted by k
ShiftedBy(o, k) ==
    /\ ret.ok = o.ret.ok
    /\ Len(ret.members) = Len(o.ret.members)
    /\ \A m \in 1..Len(ret.members) :
          ret.members[m].data = Shift(o.ret.members[m].data, k)

\* C9: without fills, the result with offset=k is the result with
\* offset=0 shifted by k positions, and an absent offset is offset 0.
C9_OffsetIdentity ==
    (TakesOffset /\ NoFills /\ Arg(call.kw, "offset").t \in {"int", "None"}) =>
        ShiftedBy(Rerun(With(call.kw, "offset", PyInt(0))), Arg(call.kw, "offset").v)

\* C9, reached: atr with offset=1 returned its values one position later
C9_Witness ==
    /\ call.via = "function" /\ call.fn = "volatility.atr"
    /\ Arg(call.kw, "offset") = PyInt(1) /\ NoFills
    /\ ret.ok /\ IsNaN(ret.members[1].data[2]) /\ ~IsNaN(ret.members[1].data[3])

\* C10: when fillna=v is given, no member of the result holds a missing
\* value, whatever the offset.
C10_FillAfterOffset ==
    (RanIndicator /\ Has(call.kw, "fillna") /\ ret.ok) =>
        \A m \in 1..Len(ret.members) : \A i \in Idx : ~IsNaN(ret.members[m].data[i])

\* C10, reached: atr with offset=1 and fillna=0 filled the vacated position
C10_Witness ==
    /\ call.via = "function" /\ call.fn = "volatility.atr"
    /\ Arg(call.kw, "offset") = PyInt(1) /\ Arg(call.kw, "fillna") = PyInt(0)
    /\ ret.ok /\ ret.members[1].data[1] = Num(0)

BothFills == Has(call.kw, "fillna") /\ Has(call.kw, "fill_method")

\* C11: when both fillna=v and fill_method=m are given, the outcome is
\* that of the call given fillna=v alone: the directional fill changes no
\* position of the result.
C11_FillPrecedence ==
    (RanIndicator /\ BothFills) => Out(ret, df) = Without1("fill_method")

\* C11, reached: atr with fillna=0 and a backward fill returned the value
\* 0 in its warm-up position, where the backward fill alone gives the
\* value of a later bar
C11_Witness ==
    /\ call.via = "function" /\ call.fn = "volatility.atr" /\ BothFills
    /\ Arg(call.kw, "fill_method") = PyStr("bfill")
    /\ ret.ok /\ ret.members[1].data[1] = Num(0)
    /\ Out(ret, df) # Without1("fillna")
\* the indicator methods that build their result in the method itself (or
\* in the private function behind it) and append it there
InlineMethods == Methods \ {"ad"}

\* C12: after a call of an inline indicator method with append=True, the
\* table holds, for each series returned, a column under that series' name
\* with the returned values at every position, the missing ones included.
C12_RoundTripAppend ==
    (RanMethod /\ TheMethod \in InlineMethods /\ Appending(call.kw) /\ ret.ok) =>
        \A m \in 1..Len(ret.members) :
            /\ ret.members[m].name \in Columns(df)
            /\ df[ret.members[m].name] = ret.members[m].data

\* C12, reached: bbands with append=True wrote three new columns, the
\* warm-up position missing in the column as in the returned series
C12_Witness ==
    /\ call.via = "method" /\ call.fn = "bbands" /\ Appending(call.kw)
    /\ ret.ok /\ Len(ret.members) = 3
    /\ "BBU_2" \notin Columns(pre) /\ "BBU_2" \in Columns(df)
    /\ IsNaN(df["BBU_2"][1]) /\ ~IsNaN(df["BBU_2"][2])
\* the methods that hand kwargs, append included, to a function which
\* handles the append option itself (log_return is the fourth of them)
DelegatingMethods == {"kurtosis", "percent_return", "uo"}

\* the call o completed and returned a series
ReturnedSeries(o) == o.ret.ok /\ o.ret.shape = "Series"

\* C13: a delegating method called with append=True, on arguments the
\* call without append succeeds with, completes without error, returns the
\* named series and leaves a column under the result's name equal to it.
C13_DelegatedAppend ==
    (/\ RanMethod /\ TheMethod \in DelegatingMethods /\ Appending(call.kw)
     /\ ReturnedSeries(Without1("append"))) =>
        /\ ret.ok /\ ret.shape = "Series"
        /\ ret.name \in Columns(df)
        /\ df[ret.name] = ret.members[1].data

\* C13, reached: kurtosis with append=True raised NameError and left the
\* table as it was, on arguments it returns KURT_4 for without append
C13_Witness ==
    /\ call.via = "method" /\ call.fn = "kurtosis" /\ Appending(call.kw)
    /\ ReturnedSeries(Without1("append"))
    /\ ~ret.ok /\ ret.err = "NameError" /\ df = pre
Canonical == {"open", "high", "low", "close", "volume"}

\* the names under which the last call wrote its result into the table
Written ==
    IF Appending(call.kw) /\ ret.ok
    THEN {ret.members[m].name : m \in 1..Len(ret.members)} ELSE {}

\* C14: after any sequence of indicator calls, the canonical columns hold
\* the values the table started with, and each call leaves under every
\* name it appended the values it returned (a column of that name written
\* earlier is overwritten) and every other column as it was, so a column
\* under a generated name holds what the most recent appending call that
\* produced the name returned.
C14_AppendSequence ==
    /\ \E t \in Tables : \A c \in Canonical :
           /\ c \in Columns(df) <=> c \in Columns(t)
           /\ c \in Columns(df) => df[c] = t[c]
    /\ RanIndicator =>
           /\ Columns(df) = Columns(pre) \cup Written
           /\ \A m \in 1..Len(ret.members) :
                 ret.members[m].name \in Written
                    => df[ret.members[m].name] = ret.members[m].data
           /\ \A c \in Columns(pre) \ Written : df[c] = pre[c]

\* C14, reached: a second bbands call appended BBM_2 over the column of
\* that name an earlier call had written, with other values
C14_Witness ==
    /\ calls = 2 /\ call.via = "method" /\ call.fn = "bbands"
    /\ Appending(call.kw) /\ ret.ok
    /\ "BBM_2" \in Columns(pre) /\ df["BBM_2"] # pre["BBM_2"]
    /\ df["BBM_2"] = ret.members[2].data
\* the series x as it was before the call: a column of the table, or a
\* series the caller passed (<<>> stands for ad's open_ left None)
AsGiven(x) ==
    \/ x = <<>>
    \/ \E c \in Columns(pre) : x = pre[c]
    \/ \E k \in DOMAIN call.kw : call.kw[k].t = "Series" /\ x = call.kw[k].d

\* C15: an indicator call with append absent or false leaves the table
\* with the columns and the values it had, whatever fill, offset and
\* min_periods options are given, and the series it took as inputs are as
\* they were given.
C15_NoSideEffect ==
    (RanIndicator /\ ~Appending(call.kw)) =>
        /\ df = pre
        /\ ret.ok => \A a \in DOMAIN ret.inputs : AsGiven(ret.inputs[a])

\* C15, reached: a second call, made with append=False, returned its
\* series and left the table, the column of the first call included, as
\* it was
C15_Witness ==
    /\ calls = 2 /\ call.via = "method" /\ call.fn = "apo"
    /\ Arg(call.kw, "append") = PyBool(FALSE)
    /\ ret.ok /\ ret.name \notin Columns(df) /\ df = pre
    /\ Columns(df) # Columns(FullTable)
Categories ==
    {"momentum", "overlap", "performance", "statistics", "trend", "volatility", "volume"}

\* C16: the category of a returned bundle is the category of each of its
\* member series, and it is one of the seven categories.
C16_BundleCategory ==
    (RanIndicator /\ ret.ok /\ ret.shape = "DataFrame") =>
        /\ ret.category \in Categories
        /\ \A m \in 1..Len(ret.members) : ret.members[m].category = ret.category

\* C16, reached: stoch returned a bundle tagged 'volatility' whose members
\* are tagged 'momentum'
C16_Witness ==
    /\ call.via = "method" /\ call.fn = "stoch" /\ ret.ok
    /\ ret.category = "volatility"
    /\ \A m \in 1..Len(ret.members) : ret.members[m].category = "momentum"
\* the function or method the last call ran
TheIndicator == IF call.via = "function" THEN call.fn ELSE TheMethod

\* the number of series a multi-output indicator computes
Outputs ==
    CASE TheIndicator = "stoch" -> 4
      [] TheIndicator \in {"kst", "aroon", "trend.aroon"} -> 2
      [] OTHER -> 3

\* C17: a multi-output indicator returns all its output series under
\* pairwise distinct names: stoch returns four series for every fast_k,
\* slow_k and slow_d, and with append=True writes four columns.
C17_BundleMembership ==
    (RanIndicator /\ ret.ok /\ ret.shape = "DataFrame") =>
        /\ Len(ret.members) = Outputs
        /\ \A i, j \in 1..Len(ret.members) :
              i # j => ret.members[i].name # ret.members[j].name
        /\ Appending(call.kw) => Cardinality(Written) = Outputs

\* C17, reached: stoch with fast_k = slow_k = slow_d = 2 and append=True
\* returned two series and wrote two columns
C17_Witness ==
    /\ call.via = "method" /\ call.fn = "stoch" /\ Appending(call.kw)
    /\ Arg(call.kw, "fast_k") = PyInt(2) /\ Arg(call.kw, "slow_k") = PyInt(2)
    /\ Arg(call.kw, "slow_d") = PyInt(2)
    /\ ret.ok /\ Len(ret.members) = 2
    /\ Columns(df) = Columns(pre) \cup {"STOCHF_2", "STOCH_2"}

\* the defaults the docstrings document, as keyword arguments
aroon_doc == [length |-> PyInt(1), offset |-> PyInt(0)]

natr_doc == [length |-> PyInt(20), offset |-> PyInt(0)]

atr_doc ==
    [length |-> PyInt(14), mamode |-> PyStr("ema"), drift |-> PyInt(1), offset |-> PyInt(0)]

accbands_doc ==
    [length |-> PyInt(10), c |-> PyInt(4), mamode |-> PyStr("ema"), drift |-> PyInt(1),
     offset |-> PyInt(0)]

true_range_doc == [drift |-> PyInt(1), offset |-> PyInt(0)]

Documented ==
    [fn \in {"trend.aroon", "volatility.natr", "volatility.atr", "volatility.accbands",
             "volatility.true_range"} |->
        CASE fn = "trend.aroon" -> aroon_doc
          [] fn = "volatility.natr" -> natr_doc
          [] fn = "volatility.atr" -> atr_doc
          [] fn = "volatility.accbands" -> accbands_doc
          [] fn = "volatility.true_range" -> true_range_doc]

NoOptional == \A k \in DOMAIN call.kw : call.kw[k].t = "absent"

\* C18: a module-level indicator of trend.py or volatility.py called with
\* no optional parameter returns the values and the names it returns when
\* the defaults of its docstring are passed explicitly.
C18_DocumentedDefaults ==
    (call.via = "function" /\ call.fn \in DOMAIN Documented /\ NoOptional) =>
        SameResult(Rerun(Documented[call.fn]))

\* trend.aroon(close) names its lines after the length 14 of the code,
\* trend.aroon(close, length=1) after the documented 1
C18_Witness ==
    /\ call.via = "function" /\ call.fn = "trend.aroon" /\ NoOptional
    /\ ret.ok /\ ret.members[1].name = "AROONU_14"
    /\ Rerun(aroon_doc).ret.ok
    /\ Rerun(aroon_doc).ret.members[1].name = "AROONU_1"

ModeFunctions == {"volatility.bbands", "volatility.accbands"}

IsEma(x) == x.t = "str" /\ Lower(x.s) = "ema"

\* the moving average of close the mode x selects, under the length, the
\* min_periods and the offset of the outcome o and the fills of the call
MidLine(x, o) ==
    Fills(Offset(IF IsEma(x)
                 THEN EwmMean(pre["close"], o.ret.eff.length.v, o.ret.eff.min_periods.v)
                 ELSE RollMean(pre["close"], o.ret.eff.length.v, o.ret.eff.min_periods.v),
                 o.ret.eff.offset.v),
          call.kw)

\* C19: bbands and accbands called with any mamode value, on arguments the
\* call without mamode succeeds with, return a bundle whose mid line is the
\* exponential moving average of close for 'ema' and the simple moving
\* average of close for every other value; no value makes the call fail.
C19_MaMode ==
    (/\ call.via = "function" /\ call.fn \in ModeFunctions
     /\ Has(call.kw, "mamode") /\ Without1("mamode").ret.ok) =>
        /\ ret.ok /\ ret.shape = "DataFrame" /\ Len(ret.members) = 3
        /\ ret.members[2].data = MidLine(Arg(call.kw, "mamode"), Without1("mamode"))

\* accbands(..., length=2, mamode='wma') binds no line and raises, while
\* mamode='sma' on the same bars returns the simple average as mid line
C19_Witness ==
    /\ call.via = "function" /\ call.fn = "volatility.accbands"
    /\ Arg(call.kw, "mamode") = PyStr("wma") /\ Arg(call.kw, "length") = PyInt(2)
    /\ ~ret.ok /\ ret.err = "UnboundLocalError"
    /\ Rerun(With(call.kw, "mamode", PyStr("sma"))).ret.ok
    /\ Rerun(With(call.kw, "mamode", PyStr("sma"))).ret.members[2].data
           = RollMean(pre["close"], 2, 2)

TrueRangeCall ==
    \/ RanMethod /\ TheMethod = "true_range"
    \/ call.via = "function" /\ call.fn = "volatility.true_range"

\* max(|high[t] - low[t]|, |high[t] - close[t-d]|, |low[t] - close[t-d]|)
RangeAt(high, low, close, t, d) ==
    QMax(QMax(QAbs(QSub(high[t], low[t])), QAbs(QSub(high[t], close[t - d]))),
         QAbs(QSub(low[t], close[t - d])))

\* x is the true range of the bars under the drift d
IsTrueRange(x, high, low, close, d) ==
    \A t \in Idx :
        /\ IsNaN(x[t]) \/ ~QLt(x[t], Num(0))
        /\ (t > d /\ t - d \in Idx) => x[t] = RangeAt(high, low, close, t, d)
        /\ (t > 1 /\ high = low /\ low = close /\ \A u \in Idx : close[u] = close[1])
              => x[t] = Num(0)

\* the keyword arguments kw with the three series passed explicitly
OnSeries(kw, high, low, close) ==
    With(With(With(kw, "high", PySeries(high)), "low", PySeries(low)),
         "close", PySeries(close))

\* C20: on every high/low/close input and drift d, the facade true_range
\* and volatility.true_range both return, at each bar that has a close d
\* bars back, the largest of |high-low|, |high-close[t-d]| and
\* |low-close[t-d]|, never a negative value, and 0 after the first bar of
\* a flat series; the two agree on the values.
C20_TrueRange ==
    (TrueRangeCall /\ ret.ok /\ NoFills /\ ~Has(call.kw, "offset")) =>
        LET d == get_drift(Arg(call.kw, "drift"))
            high == ret.inputs.high
            low == ret.inputs.low
            close == ret.inputs.close
            facade == true_range(pre, OnSeries(call.kw, high, low, close)).ret
            module == volatility_true_range(high, low, close, call.kw)
        IN  /\ facade.ok /\ module.ok
            /\ IsTrueRange(facade.members[1].data, high, low, close, d)
            /\ IsTrueRange(module.members[1].data, high, low, close, d)
            /\ facade.members[1].data = module.members[1].data

\* df.ta.true_range(high=s, low=s, close=s) on a flat series s returns 0 at
\* every bar, as volatility.true_range does; on the table's own bars the
\* second bar's range is the largest of the three distances
C20_Witness ==
    /\ RanMethod /\ TheMethod = "true_range" /\ ret.ok
    /\ Arg(call.kw, "high") = PySeries(FlatSeries) /\ ~Has(call.kw, "drift")
    /\ \A t \in Idx : t > 1 => ret.members[1].data[t] = Num(0)
    /\ volatility_true_range(FlatSeries, FlatSeries, FlatSeries, call.kw).members[1].data
           = ret.members[1].data
    /\ volatility_true_range(ZigHigh, ZigLow, ZigClose, call.kw).members[1].data[2]
           = RangeAt(ZigHigh, ZigLow, ZigClose, 2, 1)

BbandsCall ==
    \/ RanMethod /\ TheMethod = "bbands"
    \/ call.via = "function" /\ call.fn = "volatility.bbands"

\* the multiplier the caller asked for: the one passed (stdev to the
\* accessor's method, std to the function) when it is a positive number,
\* else the default 2
Multiplier ==
    LET x == IF call.via = "function" THEN Arg(call.kw, "std") ELSE Arg(call.kw, "stdev")
    IN  IF IsNumber(x) /\ x.v > 0 THEN QOf(x) ELSE Num(DefaultBbandsStdev)

\* the rolling standard deviation of the close the call was made on, at
\* the bars of the returned lines
Deviation ==
    IF call.via = "function"
    THEN Offset(stdev(ret.inputs.close, ret.eff.length), ret.eff.offset.v)
    ELSE stdev(ret.inputs.close, ret.eff.length)

QLe(a, b) == a = b \/ QLt(a, b)

\* C21: at every bar where the three lines bbands returns are defined,
\* lower <= mid <= upper, and upper - mid = mid - lower = the multiplier
\* times the rolling standard deviation, for every length, accepted
\* multiplier and moving-average mode.
C21_BbandsOrdering ==
    (BbandsCall /\ ret.ok /\ NoFills) =>
        LET lower == ret.members[1].data
            mid == ret.members[2].data
            upper == ret.members[3].data
        IN  /\ Len(ret.members) = 3
            /\ \A t \in Idx :
                  (IsFinite(lower[t]) /\ IsFinite(mid[t]) /\ IsFinite(upper[t])) =>
                      /\ QLe(lower[t], mid[t]) /\ QLe(mid[t], upper[t])
                      /\ QSub(upper[t], mid[t]) = QSub(mid[t], lower[t])
                      /\ QSub(upper[t], mid[t]) = QMul(Multiplier, Deviation[t])

\* df.ta.bbands(length=2, stdev=2.5): the bands are 2, not 2.5, deviations
\* wide, while volatility.bbands(close, length=2, std=1.5) keeps its 1.5
C21_Witness ==
    /\ RanMethod /\ TheMethod = "bbands" /\ ret.ok
    /\ Arg(call.kw, "stdev") = PyFloat(2500) /\ Arg(call.kw, "length") = PyInt(2)
    /\ IsFinite(ret.members[3].data[2]) /\ Deviation[2] # Num(0)
    /\ QSub(ret.members[3].data[2], ret.members[2].data[2]) = QMul(Num(2), Deviation[2])
    /\ volatility_bbands(pre["close"], [length |-> PyInt(2), std |-> PyFloat(1500)])
           .members[3].data[2]
         = QAdd(ret.members[2].data[2], QMul(Q(3, 2), Deviation[2]))

Increasing(x) == \A t \in Idx : t > 1 => QLt(x[t - 1], x[t])

Decreasing(x) == \A t \in Idx : t > 1 => QLt(x[t], x[t - 1])

C23_KindNotString ==
    (call.via = "__call__" /\ call.kind.t # "str") =>
        /\ ~ret.ok /\ ret.err = "ValueError"
        /\ ret.members = <<>> /\ df = pre

\* C23, reached: kind=None ended in the AttributeError of None.lower(),
\* raised again inside the handler that was to turn it into ValueError
C23_Witness ==
    /\ call.via = "__call__" /\ call.kind = None
    /\ ~ret.ok /\ ret.err = "AttributeError"
    /\ ret.members = <<>> /\ df = pre

\* C24: an accessor call whose kind names an attribute of the accessor
\* that is no indicator is refused with the unknown-indicator ValueError;
\* the attribute is not invoked and the table is not modified.
C24_ClosedDispatch ==
    (call.via = "__call__" /\ call.kind.t = "str" /\ Lower(call.kind.s) \in OtherAttrs) =>
        /\ ~ret.ok /\ ret.err = "ValueError"
        /\ ret.members = <<>> /\ df = pre

\* C24, reached: kind='defaults' with value=True ran defaults(), which
\* wrote its level columns into the table
C24_Witness ==
    /\ call.via = "__call__" /\ call.kind = PyStr("defaults")
    /\ Arg(call.kw, "value") = PyBool(TRUE)
    /\ ret.err # "ValueError"
    /\ df # pre /\ "100" \in Columns(df) /\ "100" \notin Columns(pre)

\* C25: every accessor constructed without error holds a table that is
\* not empty and has a column; construction over a table without columns
\* is rejected with AttributeError('No columns'); and no indicator method
\* is ever called on the accessor of an empty table.
C25_Construction ==
    /\ ~Empty(df)
    /\ \A t \in Given :
          Columns(t) = {} => ~init(t).ret.ok /\ init(t).ret.err = "AttributeError"
    /\ RanMethod => ~Empty(pre)

\* C25, reached: the accessor of a table without columns was constructed,
\* holds no table, and an indicator method called on it raised when it
\* read self._df
C25_Witness ==
    /\ init(<<>>).ret.ok /\ init(<<>>).df = NoTable
    /\ pre = NoTable /\ df = NoTable
    /\ call.via = "method" /\ call.fn = "rsi"
    /\ ~ret.ok /\ ret.err = "AttributeError"

KcCall ==
    /\ \/ RanMethod /\ TheMethod = "kc"
       \/ call.via = "function" /\ call.fn = "volatility.kc"
    /\ pre # NoTable /\ {"high", "low", "close"} \subseteq Columns(pre)
    /\ ~Has(call.kw, "high") /\ ~Has(call.kw, "low") /\ ~Has(call.kw, "close")

\* what the facade and the module function return on the arguments of the
\* call and the bars of the table
KcFacade == kc(pre, call.kw).ret

KcModule == volatility_kc(pre["high"], pre["low"], pre["close"], call.kw)

\* o is the bundle of the formula the mode x selects: for 'ema' the basis
\* is the ewm of close and the band the ATR, for any other mode the basis
\* is the rolling mean of the typical price and the band the rolling mean
\* of high - low
KcFormula(o, x) ==
    LET length == o.eff.length.v
        mp == o.eff.min_periods.v
        band == IF IsEma(x)
                THEN volatility_atr(pre["high"], pre["low"], pre["close"],
                                    <<>>).members[1].data
                ELSE RollMean(SSub(pre["high"], pre["low"]), length, mp)
        basis == IF IsEma(x) THEN EwmMean(pre["close"], length, mp)
                 ELSE RollMean(hlc3(pre["high"], pre["low"], pre["close"]), length, mp)
    IN  /\ o.members[2].data = basis
        /\ o.members[1].data = SSub(basis, SScale(QOf(o.eff.scalar), band))
        /\ o.members[3].data = SAdd(basis, SScale(QOf(o.eff.scalar), band))

\* C26: on the same high/low/close, length, scalar and mamode the facade
\* kc and volatility.kc return the same three lines: with mamode 'ema' the
\* basis is the EMA of close and the band the ATR, with any other mode the
\* basis is the SMA of the typical price and the band the SMA of
\* high - low; called without arguments both use the length 20.
C26_KcSameFormula ==
    (/\ KcCall /\ NoFills /\ ~Has(call.kw, "offset")
     /\ KcFacade.ok \/ KcModule.ok) =>
        /\ KcFacade.ok /\ KcModule.ok
        /\ \A j \in 1..3 : KcFacade.members[j].data = KcModule.members[j].data
        /\ KcFormula(KcFacade, Arg(call.kw, "mamode"))
        /\ KcFormula(KcModule, Arg(call.kw, "mamode"))
        /\ ~Has(call.kw, "length") =>
              /\ KcFacade.eff.length = PyInt(DefaultVolatilityKcLength)
              /\ KcModule.eff.length = PyInt(DefaultVolatilityKcLength)

\* C26, reached: volatility.kc(length=2, mamode='ema') returned the ewm of
\* close as basis, the facade on the same arguments returns the rolling
\* mean of the typical price, and the facade without a length keeps 9999
C26_Witness ==
    /\ KcCall /\ call.via = "function" /\ ret.ok
    /\ Arg(call.kw, "length") = PyInt(2) /\ Arg(call.kw, "mamode") = PyStr("ema")
    /\ ~Has(call.kw, "min_periods") /\ ~Has(call.kw, "offset")
    /\ ret.members[2].data = EwmMean(pre["close"], 2, 2)
    /\ KcFacade.ok
    /\ KcFacade.members[2].data
           = RollMean(hlc3(pre["high"], pre["low"], pre["close"]), 2, 2)
    /\ KcFacade.members[2].data # ret.members[2].data
    /\ kc(pre, With(call.kw, "length", Absent)).ret.eff.length = PyInt(DefaultKcLength)

TwoWindow == {"apo", "ppo"}

\* C27: when min_periods is not supplied, apo and ppo are missing at every
\* position before slow - 1: a value is emitted only where the slow moving
\* average has a complete window of `slow` observations.
C27_FullWindow ==
    (/\ RanMethod /\ TheMethod \in TwoWindow /\ ret.ok
     /\ ~Has(call.kw, "min_periods") /\ NoFills) =>
        \A t \in Idx : t - 1 < ret.eff.slow.v - 1 => IsNaN(ret.members[1].data[t])

\* C27, reached: ppo(fast=2, slow=3) without min_periods has a value at
\* position 1, where the slow window holds two observations of its three
C27_Witness ==
    /\ call.via = "method" /\ call.fn = "ppo" /\ ret.ok
    /\ Arg(call.kw, "fast") = PyInt(2) /\ Arg(call.kw, "slow") = PyInt(3)
    /\ ~Has(call.kw, "min_periods")
    /\ ret.eff.min_periods = PyInt(2)
    /\ ~IsNaN(ret.members[1].data[2])
    /\ ret.members[1].data[2] = Num(0)
    /\ IsNaN(ret.members[1].data[1])

\* the series fn returns on the close and the arguments of the call,
\* with percent set to p
Scaled(fn, p) ==
    LET kw == With(call.kw, "percent", p)
    IN  IF fn = "percent_return" THEN percent_return(ret.inputs.close, kw).members[1].data
        ELSE log_return(ret.inputs.close, kw).members[1].data

\* the values under percent=True are 100 times those under percent=False
\* wherever the latter are defined
HundredTimes(fn) ==
    \A t \in Idx :
        IsFinite(Scaled(fn, PyBool(FALSE))[t]) =>
            Scaled(fn, PyBool(TRUE))[t] = QMul(Num(100), Scaled(fn, PyBool(FALSE))[t])

ReturnCall ==
    /\ \/ RanMethod /\ TheMethod = "percent_return"
       \/ call.via = "function" /\ call.fn = "performance.log_return"
    /\ ret.ok

\* C28: for every close, length and offset, cumulative or not,
\* percent_return(percent=True) is 100 times percent_return(percent=False)
\* at every defined position, and log_return likewise.
C28_PercentScaling ==
    ReturnCall =>
        HundredTimes(IF call.via = "function" THEN "log_return" ELSE "percent_return")

\* C28, reached: the cumulative percent return under percent=True is ten
\* thousand times the one under percent=False, at a position where that
\* one is defined and not zero
C28_Witness ==
    /\ ReturnCall /\ TheIndicator = "percent_return"
    /\ Truthy(Arg(call.kw, "cumulative")) /\ Truthy(Arg(call.kw, "percent"))
    /\ ~Has(call.kw, "offset")
    /\ \E t \in Idx :
          /\ IsFinite(Scaled("percent_return", PyBool(FALSE))[t])
          /\ Scaled("percent_return", PyBool(FALSE))[t] # Num(0)
          /\ ret.members[1].data[t]
                 = QMul(Num(10000), Scaled("percent_return", PyBool(FALSE))[t])

AdxCall == call.via = "function" /\ call.fn = "trend.adx" /\ ret.ok

\* the two directional movements and the DX of the call, on the bars it
\* was given
ThePos == AdxPos(ret.inputs.high, ret.inputs.low, ret.eff.drift.v)

TheNeg == AdxNeg(ret.inputs.high, ret.inputs.low, ret.eff.drift.v)

TheAtr ==
    volatility_atr(ret.inputs.high, ret.inputs.low, ret.inputs.close,
                   [length |-> ret.eff.length]).members[1].data

TheDx ==
    AdxDx(AdxDm(TheAtr, ThePos, ret.eff.length), AdxDm(TheAtr, TheNeg, ret.eff.length))

\* the bar t has a bar drift bars before it, so that both moves exist
HasMoves(t) ==
    /\ ~IsNaN(AdxUp(ret.inputs.high, ret.eff.drift.v)[t])
    /\ ~IsNaN(AdxDn(ret.inputs.low, ret.eff.drift.v)[t])

\* where both moves exist, pos and neg are not negative, at most one of
\* them is not zero, and the one that is not is the larger, positive move
Exclusive(pos, neg, up, dn) ==
    \A t \in Idx : (~IsNaN(up[t]) /\ ~IsNaN(dn[t])) =>
        /\ QLe(Num(0), pos[t]) /\ QLe(Num(0), neg[t])
        /\ pos[t] = Num(0) \/ neg[t] = Num(0)
        /\ pos[t] # Num(0) => QGt(up[t], dn[t]) /\ QGt(up[t], Num(0)) /\ pos[t] = up[t]
        /\ neg[t] # Num(0) => QGt(dn[t], up[t]) /\ QGt(dn[t], Num(0)) /\ neg[t] = dn[t]

\* every value of x that is not missing lies in [0, 100]
Percentage(x) ==
    \A t \in Idx : ~IsNaN(x[t]) => QLe(Num(0), x[t]) /\ QLe(x[t], Num(100))

OutputNames(r) == {r.members[i].name : i \in 1..Len(r.members)}

\* parameter values to call the same indicator with again
Variants ==
    {<<"mamode", PyStr("sma")>>, <<"mamode", PyStr("ema")>>, <<"std", PyInt(3)>>,
     <<"stdev", PyInt(3)>>, <<"length", PyInt(3)>>}

\* C30: two calls of the same indicator on the same table whose effective
\* parameters differ (moving-average mode and multiplier included) return
\* no series of the same name, so that with append=True neither overwrites
\* a column written by the other.
C30_DistinctNames ==
    (RanIndicator /\ ret.ok /\ pre # NoTable) =>
        \A x \in Variants :
            (/\ Rerun(With(call.kw, x[1], x[2])).ret.ok
             /\ Rerun(With(call.kw, x[1], x[2])).ret.eff # ret.eff) =>
                OutputNames(ret) \cap OutputNames(Rerun(With(call.kw, x[1], x[2])).ret)
                    = {}

\* C30, reached: atr(length=2, mamode='sma') and atr(length=2) differ in
\* the effective mode and in the values and both return ATR_2
C30_Witness ==
    /\ call.via = "method" /\ call.fn = "atr" /\ ret.ok
    /\ Arg(call.kw, "mamode") = PyStr("sma") /\ Arg(call.kw, "length") = PyInt(2)
    /\ ret.eff.mamode = PyStr("sma")
    /\ Without1("mamode").ret.ok
    /\ Without1("mamode").ret.eff.mamode = PyStr("ema")
    /\ ret.name = "ATR_2" /\ Without1("mamode").ret.name = "ATR_2"
    /\ Without1("mamode").ret.members[1].data # ret.members[1].data

=============================================================================
